---- MODULE Spec2Model ----
(***************************************************************************)
(* A model of the EDF document container (src/src/lib.rs, leb128.rs) and   *)
(* of the layout builder (src/src/layout/builder.rs).                      *)
(*                                                                         *)
(* Bytes are numbers 0..255, byte strings are sequences of bytes, stream   *)
(* positions are 0-based byte offsets (the byte at offset p of src is      *)
(* src[p+1]).  A string is the sequence of its UTF-8 bytes.                *)
(***************************************************************************)
EXTENDS Integers, Sequences, FiniteSets, TLC

VARIABLES
    \* ---- codec: one write::doc call followed by the reads of dump.rs ----
    hdr,          \* Header.styles handed to write::doc
    cmds,         \* the command list handed to write::doc
    pc,           \* position of the write/read driver
    file,         \* the bytes written by write::doc
    page_offsets, \* the page offsets encode_pages returned
    rpos,         \* position of the reader's cursor in the file
    rhdr,         \* Header.styles returned by read::header
    rtrailer,     \* Trailer.pages returned by read::trailer
    rpage,        \* number of trailer entries already handed to read::page
    rcmds,        \* the commands of the pages read so far, concatenated
    rerr,         \* the error a read returned, "Ok" if none
    \* ---- layout: Builder and ParagraphBuilder ----
    mode,         \* "doc" (a Builder), "paragraph" (a ParagraphBuilder) or "panicked"
    bbox_h,       \* Builder.bounding_box.size.height
    style,        \* Builder.style
    style_id,     \* Builder.style_id
    line_height,  \* Builder.line_height
    baseline,     \* Builder.baseline
    whitespace_width, \* Builder.whitespace_width (stretch and shrink are width/2, width/3)
    cursor_y,     \* Builder.cursor.y
    styles,       \* Builder.styles
    commands,     \* Builder.commands
    pages,        \* Builder.pages
    p_style,      \* ParagraphBuilder.style
    p_style_id,   \* ParagraphBuilder.style_id
    p_whitespace_width, \* ParagraphBuilder.whitespace_width
    items,        \* ParagraphBuilder.items
    last_par,     \* the last paragraph laid out: where its commands start and end,
                  \* the number of its lines
    \* ---- display::page ----
    display,      \* the arguments and the locals of one display::page call, the
                  \* position of its loop and what it has drawn
    \* ---- font_db.rs: the fonts and the glyph cache of Fonts ----
    fonts,            \* Fonts.fonts, the Font of each name added
    glyph_cache,      \* the keys the LruCache holds, the most recently used first
    glyph_cache_size, \* the capacity Fonts::new gave the cache
    lookups,          \* the keys Fonts::glyph was called with, in order
    \* ---- leb128.rs on u64: one write::unsigned, one read::unsigned ----
    leb_pc,       \* "val" or "input" before, "written" and "read" after the calls
    leb_val,      \* the u64 handed to write::unsigned, as the set of its 1 bits
    leb_stream,   \* the bytes of the stream
    leb_written,  \* the number write::unsigned returned
    leb_result,   \* what read::unsigned returned and where it left the stream
    \* ---- layout/markdown.rs: one build call, its builder in the layout variables ----
    context,      \* the LayoutContext of build, the event names that are open,
                  \* the style id the paragraph had when each of them was
                  \* entered, and what build returned
    \* ---- display::page: the characters of the Shows of one line, in f32 ----
    diffusion     \* whitespace_width, whitespace_width_quantized and error of
                  \* display::page, the characters shown since the last
                  \* LineBreak and how far they moved the text cursor

codecVars == <<hdr, cmds, pc, file, page_offsets, rpos, rhdr, rtrailer, rpage, rcmds, rerr>>
layoutVars == <<mode, bbox_h, style, style_id, line_height, baseline, whitespace_width,
                cursor_y, styles, commands, pages, p_style, p_style_id,
                p_whitespace_width, items, last_par>>
\* the variables of the other components
displayVars == <<display>>
cacheVars == <<fonts, glyph_cache, glyph_cache_size, lookups>>
lebVars == <<leb_pc, leb_val, leb_stream, leb_written, leb_result>>
markdownVars == <<context>>
diffusionVars == <<diffusion>>
restVars == <<displayVars, cacheVars, lebVars, markdownVars, diffusionVars>>
vars == <<codecVars, layoutVars, restVars>>

(***************************************************************************)
(* Generic helpers.                                                        *)
(***************************************************************************)
Pow2(n) == 2 ^ n

Range(f) == {f[i] : i \in DOMAIN f}

RECURSIVE Flatten(_)
Flatten(ss) == IF ss = <<>> THEN <<>> ELSE Head(ss) \o Flatten(Tail(ss))

SubBytes(src, from, to) == IF to <= from THEN <<>> ELSE SubSeq(src, from + 1, to)

\* F applied to the value of v: names a result that is used more than once
Bind(v, F(_)) == CHOOSE r \in {F(x) : x \in {v}} : TRUE

(***************************************************************************)
(* A style, a command.  Every command is a record of the same shape; the   *)
(* fields a variant does not have hold the defaults below.                 *)
(***************************************************************************)
Style(name, em) == [font_name |-> name, em_px |-> em]

\* an f32 by its IEEE 754 fields: sign (1 bit), exponent (8 bits), mantissa (23 bits)
F32(s, e, m) == [sign |-> s, exp |-> e, mant |-> m]
F32Zero == F32(0, 0, 0)

Cmd(op, x, y, r, str) == [op |-> op, x |-> x, y |-> y, r |-> r, str |-> str]
Nop == Cmd("Nop", 0, 0, F32Zero, <<>>)
HTab == Cmd("HTab", 0, 0, F32Zero, <<>>)
LineBreak == Cmd("LineBreak", 0, 0, F32Zero, <<>>)
VTab == Cmd("VTab", 0, 0, F32Zero, <<>>)
PageBreak == Cmd("PageBreak", 0, 0, F32Zero, <<>>)
Show(str) == Cmd("Show", 0, 0, F32Zero, str)
Advance(dx) == Cmd("Advance", dx, 0, F32Zero, <<>>)
SetCursor(x, y) == Cmd("SetCursor", x, y, F32Zero, <<>>)
SetStyle(s) == Cmd("SetStyle", s, 0, F32Zero, <<>>)
SetAdjustmentRatio(r) == Cmd("SetAdjustmentRatio", 0, 0, r, <<>>)
SetLineMetrics(height, bl) == Cmd("SetLineMetrics", height, bl, F32Zero, <<>>)
End == Cmd("End", 0, 0, F32Zero, <<>>)

(***************************************************************************)
(* leb128.rs                                                               *)
(***************************************************************************)
\* write::unsigned without the continuation bit
RECURSIVE LebWriteNoContinuation(_)
LebWriteNoContinuation(val) ==
    IF val \div 128 # 0
    THEN <<val % 128>> \o LebWriteNoContinuation(val \div 128)
    ELSE <<val % 128>>

\* write::unsigned: 7-bit groups, low group first, continuation bit on all but the last
RECURSIVE LebWrite(_)
LebWrite(val) ==
    IF val \div 128 # 0
    THEN <<(val % 128) + 128>> \o LebWrite(val \div 128)
    ELSE <<val % 128>>

\* an overflow reported without reading on to the end of the value
LebSkipNoResync(src, pos) == [err |-> "Overflow", val |-> 0, pos |-> pos]

\* the resynchronising loop of read::unsigned after an overflow
RECURSIVE LebSkip(_, _)
LebSkip(src, pos) ==
    IF src[pos] >= 128
    THEN IF pos >= Len(src)
         THEN [err |-> "IoError", val |-> 0, pos |-> Len(src)]
         ELSE LebSkip(src, pos + 1)
    ELSE [err |-> "Overflow", val |-> 0, pos |-> pos]

\* read::unsigned from the byte at offset pos; pos of the result is the offset
\* after the last byte consumed
RECURSIVE LebReadFrom(_, _, _, _)
LebReadFrom(src, pos, result, shift) ==
    IF pos >= Len(src)
    THEN [err |-> "IoError", val |-> 0, pos |-> Len(src)]
    ELSE LET b == src[pos + 1] IN
         IF shift = 63 /\ b # 0 /\ b # 1
         THEN LebSkip(src, pos + 1)
         ELSE LET low == b % 128
                  res == IF low = 0 THEN result ELSE result + low * Pow2(shift)
              IN IF b < 128
                 THEN [err |-> "Ok", val |-> res, pos |-> pos + 1]
                 ELSE LebReadFrom(src, pos + 1, res, shift + 7)

LebRead(src, pos) == LebReadFrom(src, pos, 0, 0)

\* leb128::read::unsigned(r)?.try_into()? as lib.rs uses it: an I/O error stays an
\* I/O error, an overflow or a value above max is InvalidEncoding
LebReadMax(src, pos, max) ==
    Bind(LebRead(src, pos), LAMBDA r :
        IF r.err = "IoError" THEN r
        ELSE IF r.err = "Overflow" THEN [r EXCEPT !.err = "InvalidEncoding"]
        ELSE IF r.val > max THEN [r EXCEPT !.err = "InvalidEncoding"]
        ELSE r)

U16Max == 65535

\* a u32 operand: every value the model can hold is below 2^31, so only the
\* errors of the read itself remain
LebReadU32(src, pos) ==
    Bind(LebRead(src, pos), LAMBDA r :
        IF r.err = "Overflow" THEN [r EXCEPT !.err = "InvalidEncoding"] ELSE r)

(***************************************************************************)
(* Fixed-width little-endian fields.                                       *)
(***************************************************************************)
\* i32::to_le_bytes (two's complement), for v in -2^31 .. 2^31-1
I32ToLe(v) ==
    LET w == IF v < 0 THEN (v + Pow2(30)) + Pow2(30) ELSE v
        top == IF v < 0 THEN 128 ELSE 0
    IN <<w % 256, (w \div 256) % 256, (w \div 65536) % 256, (w \div 16777216) + top>>

\* i32::from_le_bytes
I32FromLe(b) ==
    LET w == b[1] + b[2] * 256 + b[3] * 65536 + (b[4] % 128) * 16777216
    IN IF b[4] >= 128 THEN (w - Pow2(30)) - Pow2(30) ELSE w

\* f32::to_le_bytes: bits = sign . exponent . mantissa
F32ToLe(r) ==
    <<r.mant % 256, (r.mant \div 256) % 256,
      (r.exp % 2) * 128 + (r.mant \div 65536), r.sign * 128 + (r.exp \div 2)>>

\* f32::from_le_bytes
F32FromLe(b) ==
    F32(b[4] \div 128, (b[4] % 128) * 2 + (b[3] \div 128),
        (b[3] % 128) * 65536 + b[2] * 256 + b[1])

(***************************************************************************)
(* lib.rs, mod write                                                       *)
(***************************************************************************)
Magic == <<14, 223, 1, 0>>

EncodeString(s) == LebWrite(Len(s)) \o s

EncodeStyle(s) == EncodeString(s.font_name) \o LebWrite(s.em_px)

EncodeHeader(h) ==
    Magic \o LebWrite(Len(h)) \o Flatten([i \in 1..Len(h) |-> EncodeStyle(h[i])])

\* the bytes encode_pages writes for one command
EncodeCommand(c) ==
    CASE c.op = "Nop" -> <<128>>
      [] c.op = "HTab" -> <<9>>
      [] c.op = "LineBreak" -> <<10>>
      [] c.op = "VTab" -> <<11>>
      [] c.op = "PageBreak" -> <<12>>
      [] c.op = "Show" -> c.str
      [] c.op = "Advance" -> <<129>> \o LebWrite(c.x)
      [] c.op = "SetCursor" -> <<130>> \o LebWrite(c.x) \o LebWrite(c.y)
      [] c.op = "SetStyle" -> <<131>> \o LebWrite(c.x)
      [] c.op = "SetAdjustmentRatio" -> <<132>> \o F32ToLe(c.r)
      [] c.op = "SetLineMetrics" -> <<133>> \o LebWrite(c.x) \o LebWrite(c.y)
      [] OTHER -> <<>>

\* encode_pages pushing the offset of the start of the pages at every PageBreak
RECURSIVE EncodePagesFromNoAdvance(_, _, _, _, _)
EncodePagesFromNoAdvance(at, cs, i, offs, out) ==
    IF i > Len(cs)
    THEN [offsets |-> offs, bytes |-> out \o <<191>>]
    ELSE EncodePagesFromNoAdvance(at, cs, i + 1,
                                  IF cs[i].op = "PageBreak" THEN Append(offs, at) ELSE offs,
                                  out \o EncodeCommand(cs[i]))

\* encode_pages pushing the offset of the PageBreak opcode itself
RECURSIVE EncodePagesFromBeforeWrite(_, _, _, _, _)
EncodePagesFromBeforeWrite(at, cs, i, offs, out) ==
    IF i > Len(cs)
    THEN [offsets |-> offs, bytes |-> out \o <<191>>]
    ELSE EncodePagesFromBeforeWrite(at, cs, i + 1,
                                    IF cs[i].op = "PageBreak"
                                    THEN Append(offs, at + Len(out))
                                    ELSE offs,
                                    out \o EncodeCommand(cs[i]))

\* encode_pages without the End opcode after the last command
RECURSIVE EncodePagesFromNoEnd(_, _, _, _, _)
EncodePagesFromNoEnd(at, cs, i, offs, out) ==
    IF i > Len(cs)
    THEN [offsets |-> offs, bytes |-> out]
    ELSE Bind(out \o EncodeCommand(cs[i]), LAMBDA out2 :
             EncodePagesFromNoEnd(at, cs, i + 1,
                                  IF cs[i].op = "PageBreak"
                                  THEN Append(offs, at + Len(out2))
                                  ELSE offs,
                                  out2))

\* the loop of encode_pages from command i on: offs are the offsets pushed so
\* far, out the bytes written so far (n = Len(out))
RECURSIVE EncodePagesFrom(_, _, _, _, _)
EncodePagesFrom(at, cs, i, offs, out) ==
    IF i > Len(cs)
    THEN [offsets |-> offs, bytes |-> out \o <<191>>]
    ELSE Bind(out \o EncodeCommand(cs[i]), LAMBDA out2 :
             EncodePagesFrom(at, cs, i + 1,
                             IF cs[i].op = "PageBreak"
                             THEN Append(offs, at + Len(out2))
                             ELSE offs,
                             out2))

EncodePages(at, cs) == EncodePagesFrom(at, cs, 1, <<at>>, <<>>)

\* encode_trailer counting the 4 bytes of back_off in back_off
EncodeTrailerCountingBackOff(offs) ==
    Bind(LebWrite(Len(offs)) \o Flatten([i \in 1..Len(offs) |-> LebWrite(offs[i])]),
         LAMBDA body : body \o I32ToLe(-(Len(body) + 4)))

EncodeTrailer(offs) ==
    Bind(LebWrite(Len(offs)) \o Flatten([i \in 1..Len(offs) |-> LebWrite(offs[i])]),
         LAMBDA body : body \o I32ToLe(-Len(body)))

\* write::doc: the whole file
DocBytes(h, cs) ==
    Bind(EncodeHeader(h), LAMBDA head :
        Bind(EncodePages(Len(head), cs), LAMBDA body :
            head \o body.bytes \o EncodeTrailer(body.offsets)))

(***************************************************************************)
(* lib.rs, mod read.  Every read returns a record whose err field is "Ok"  *)
(* or the name of the read::Error variant; "panic" is a slice index out of *)
(* range and "hang" a loop that makes no progress.                         *)
(***************************************************************************)
\* UTF8_CHAR_WIDTH
Utf8CharWidth(b) ==
    IF b < 128 THEN 1
    ELSE IF b < 194 THEN 0
    ELSE IF b < 224 THEN 2
    ELSE IF b < 240 THEN 3
    ELSE IF b < 245 THEN 4
    ELSE 0

IsCont(b) == b >= 128 /\ b < 192

\* core::str::from_utf8 on the bytes of s from index i (1-based) on
RECURSIVE Utf8ValidFrom(_, _)
Utf8ValidFrom(s, i) ==
    IF i > Len(s) THEN TRUE
    ELSE \E w \in {Utf8CharWidth(s[i])} :
            /\ w # 0
            /\ i + w - 1 <= Len(s)
            /\ \A k \in 1..(w - 1) : IsCont(s[i + k])
            /\ (s[i] = 224 => s[i + 1] >= 160)
            /\ (s[i] = 237 => s[i + 1] < 160)
            /\ (s[i] = 240 => s[i + 1] >= 144)
            /\ (s[i] = 244 => s[i + 1] < 144)
            /\ Utf8ValidFrom(s, i + w)

Utf8Valid(s) == Utf8ValidFrom(s, 1)

ReadErr(e, pos) == [err |-> e, val |-> <<>>, pos |-> pos]

\* read_string
ReadString(src, pos) ==
    Bind(LebReadU32(src, pos), LAMBDA l :
        IF l.err # "Ok" THEN ReadErr(l.err, l.pos)
        ELSE IF l.pos + l.val > Len(src) THEN ReadErr("IoError", Len(src))
        ELSE Bind(SubBytes(src, l.pos, l.pos + l.val), LAMBDA bytes :
                 IF ~Utf8Valid(bytes) THEN ReadErr("InvalidEncoding", l.pos + l.val)
                 ELSE [err |-> "Ok", val |-> bytes, pos |-> l.pos + l.val]))

\* read_style
ReadStyle(src, pos) ==
    Bind(ReadString(src, pos), LAMBDA name :
        IF name.err # "Ok" THEN name
        ELSE Bind(LebReadMax(src, name.pos, U16Max), LAMBDA em :
                 IF em.err # "Ok" THEN ReadErr(em.err, em.pos)
                 ELSE [err |-> "Ok", val |-> Style(name.val, em.val), pos |-> em.pos]))

\* the loop of read::header: n more styles to read
RECURSIVE ReadStyles(_, _, _, _)
ReadStyles(src, pos, n, acc) ==
    IF n = 0 THEN [err |-> "Ok", val |-> acc, pos |-> pos]
    ELSE Bind(ReadStyle(src, pos), LAMBDA s :
             IF s.err # "Ok" THEN s
             ELSE ReadStyles(src, s.pos, n - 1, Append(acc, s.val)))

\* read::header comparing the first three bytes only
ReadHeaderAtThreeBytes(src) ==
    IF Len(src) < 4 THEN ReadErr("IoError", Len(src))
    ELSE IF SubBytes(src, 0, 3) # SubBytes(Magic, 0, 3) THEN ReadErr("InvalidMagicNumber", 4)
    ELSE Bind(LebReadU32(src, 4), LAMBDA l :
             IF l.err # "Ok" THEN ReadErr(l.err, l.pos)
             ELSE ReadStyles(src, l.pos, l.val, <<>>))

\* read::header on a stream positioned at offset 0
ReadHeaderAt(src) ==
    IF Len(src) < 4 THEN ReadErr("IoError", Len(src))
    ELSE IF SubBytes(src, 0, 4) # Magic THEN ReadErr("InvalidMagicNumber", 4)
    ELSE Bind(LebReadU32(src, 4), LAMBDA l :
             IF l.err # "Ok" THEN ReadErr(l.err, l.pos)
             ELSE ReadStyles(src, l.pos, l.val, <<>>))

\* seek_trailer seeking to end + back_off
SeekTrailerAtNoAdjust(src) ==
    IF Len(src) < 4 THEN [err |-> "IoError", val |-> 0]
    ELSE Bind(I32FromLe(SubBytes(src, Len(src) - 4, Len(src))), LAMBDA back_off :
             IF back_off >= 0 THEN [err |-> "InvalidEncoding", val |-> Len(src)]
             ELSE IF Len(src) + back_off < 0 THEN [err |-> "IoError", val |-> Len(src)]
             ELSE [err |-> "Ok", val |-> Len(src) + back_off])

\* read::seek_trailer: val is the position the stream is left at
SeekTrailerAt(src) ==
    IF Len(src) < 4 THEN [err |-> "IoError", val |-> 0]
    ELSE Bind(I32FromLe(SubBytes(src, Len(src) - 4, Len(src))), LAMBDA back_off :
             IF back_off < 4 - Pow2(30) - Pow2(30) THEN [err |-> "panic", val |-> Len(src)]
             ELSE IF back_off - 4 >= 0 THEN [err |-> "InvalidEncoding", val |-> Len(src)]
             ELSE IF Len(src) + (back_off - 4) < 0 THEN [err |-> "IoError", val |-> Len(src)]
             ELSE [err |-> "Ok", val |-> Len(src) + (back_off - 4)])

\* the loop of read::trailer: n more offsets to read
RECURSIVE ReadOffsets(_, _, _, _)
ReadOffsets(src, pos, n, acc) ==
    IF n = 0 THEN [err |-> "Ok", val |-> acc, pos |-> pos]
    ELSE Bind(LebReadU32(src, pos), LAMBDA o :
             IF o.err # "Ok" THEN ReadErr(o.err, o.pos)
             ELSE ReadOffsets(src, o.pos, n - 1, Append(acc, o.val)))

\* read::trailer on a stream positioned at pos
ReadTrailerAt(src, pos) ==
    Bind(LebReadU32(src, pos), LAMBDA l :
        IF l.err # "Ok" THEN ReadErr(l.err, l.pos)
        ELSE ReadOffsets(src, l.pos, l.val, <<>>))

DecErr(e) == [err |-> e, cmd |-> Nop, next |-> 0]
DecOk(c, next) == [err |-> "Ok", cmd |-> c, next |-> next]

\* two u16 LEB128 operands read one after the other from offset pos
ReadTwoU16(src, pos) ==
    Bind(LebReadMax(src, pos, U16Max), LAMBDA a :
        IF a.err # "Ok" THEN [err |-> a.err, x |-> 0, y |-> 0, pos |-> a.pos]
        ELSE Bind(LebReadMax(src, a.pos, U16Max), LAMBDA b :
                 [err |-> b.err, x |-> a.val, y |-> b.val, pos |-> b.pos]))

\* decode_command accepting a style index equal to the number of styles
DecodeCommandStyleOffByOne(n_styles, src, pos) ==
    CASE src[pos + 1] = 9 -> DecOk(HTab, pos + 1)
      [] src[pos + 1] = 10 -> DecOk(LineBreak, pos + 1)
      [] src[pos + 1] = 11 -> DecOk(VTab, pos + 1)
      [] src[pos + 1] = 12 -> DecOk(PageBreak, pos + 1)
      [] src[pos + 1] = 128 -> DecOk(Nop, pos + 1)
      [] src[pos + 1] = 129 ->
           Bind(LebReadMax(src, pos + 1, U16Max), LAMBDA dx :
               IF dx.err # "Ok" THEN DecErr(dx.err) ELSE DecOk(Advance(dx.val), dx.pos))
      [] src[pos + 1] = 130 ->
           Bind(ReadTwoU16(src, pos + 1), LAMBDA xy :
               IF xy.err # "Ok" THEN DecErr(xy.err)
               ELSE DecOk(SetCursor(xy.x, xy.y), xy.pos))
      [] src[pos + 1] = 131 ->
           Bind(LebReadMax(src, pos + 1, U16Max), LAMBDA s :
               IF s.err # "Ok" THEN DecErr(s.err)
               ELSE IF s.val > n_styles THEN DecErr("InvalidStyleIndex")
               ELSE DecOk(SetStyle(s.val), s.pos))
      [] src[pos + 1] = 132 ->
           IF Len(src) - (pos + 1) < 4 THEN DecErr("InvalidEncoding")
           ELSE DecOk(SetAdjustmentRatio(F32FromLe(SubBytes(src, pos + 1, pos + 5))),
                      pos + 5)
      [] src[pos + 1] = 133 ->
           Bind(ReadTwoU16(src, pos + 1), LAMBDA hb :
               IF hb.err # "Ok" THEN DecErr(hb.err)
               ELSE DecOk(SetLineMetrics(hb.x, hb.y), hb.pos))
      [] src[pos + 1] = 191 -> DecOk(End, pos + 1)
      [] OTHER -> DecErr("InvalidCommand")

\* decode_command on the opcode at offset pos; next is the offset after the command
DecodeCommand(n_styles, src, pos) ==
    CASE src[pos + 1] = 9 -> DecOk(HTab, pos + 1)
      [] src[pos + 1] = 10 -> DecOk(LineBreak, pos + 1)
      [] src[pos + 1] = 11 -> DecOk(VTab, pos + 1)
      [] src[pos + 1] = 12 -> DecOk(PageBreak, pos + 1)
      [] src[pos + 1] = 128 -> DecOk(Nop, pos + 1)
      [] src[pos + 1] = 129 ->
           Bind(LebReadMax(src, pos + 1, U16Max), LAMBDA dx :
               IF dx.err # "Ok" THEN DecErr(dx.err) ELSE DecOk(Advance(dx.val), dx.pos))
      [] src[pos + 1] = 130 ->
           Bind(ReadTwoU16(src, pos + 1), LAMBDA xy :
               IF xy.err # "Ok" THEN DecErr(xy.err)
               ELSE DecOk(SetCursor(xy.x, xy.y), xy.pos))
      [] src[pos + 1] = 131 ->
           Bind(LebReadMax(src, pos + 1, U16Max), LAMBDA s :
               IF s.err # "Ok" THEN DecErr(s.err)
               ELSE IF s.val >= n_styles THEN DecErr("InvalidStyleIndex")
               ELSE DecOk(SetStyle(s.val), s.pos))
      [] src[pos + 1] = 132 ->
           IF Len(src) - (pos + 1) < 4 THEN DecErr("InvalidEncoding")
           ELSE DecOk(SetAdjustmentRatio(F32FromLe(SubBytes(src, pos + 1, pos + 5))),
                      pos + 5)
      [] src[pos + 1] = 133 ->
           Bind(ReadTwoU16(src, pos + 1), LAMBDA hb :
               IF hb.err # "Ok" THEN DecErr(hb.err)
               ELSE DecOk(SetLineMetrics(hb.x, hb.y), hb.pos))
      [] src[pos + 1] = 191 -> DecOk(End, pos + 1)
      [] OTHER -> DecErr("InvalidCommand")

\* the inner loop of read::page: scan a run of text from offset i on
RECURSIVE ScanRun(_, _)
ScanRun(src, i) ==
    IF i >= Len(src) THEN [hang |-> FALSE, i |-> i]
    ELSE IF src[i + 1] < 32 \/ (src[i + 1] > 127 /\ src[i + 1] < 192)
         THEN [hang |-> FALSE, i |-> i]
    ELSE IF Utf8CharWidth(src[i + 1]) = 0 THEN [hang |-> TRUE, i |-> i]
    ELSE ScanRun(src, i + Utf8CharWidth(src[i + 1]))

PageErr(e) == [err |-> e, cmds |-> <<>>]

\* what read::page does after the scan stopped at offset i: the run as a Show,
\* then the command at i
RECURSIVE PageFrom(_, _, _, _)
PageStep(n_styles, src, pos, acc, i) ==
    Bind(IF i # pos THEN Append(acc, Show(SubBytes(src, pos, i))) ELSE acc, LAMBDA acc1 :
        IF ~Utf8Valid(SubBytes(src, pos, i)) THEN PageErr("InvalidEncoding")
        ELSE IF i = Len(src) THEN [err |-> "Ok", cmds |-> acc1]
        ELSE Bind(DecodeCommand(n_styles, src, i), LAMBDA d :
                 IF d.err # "Ok" THEN PageErr(d.err)
                 ELSE IF d.cmd.op \in {"PageBreak", "End"}
                      THEN [err |-> "Ok", cmds |-> Append(acc1, d.cmd)]
                      ELSE PageFrom(n_styles, src, d.next, Append(acc1, d.cmd))))

\* the outer loop of read::page with the slice starting at offset pos
PageFrom(n_styles, src, pos, acc) ==
    IF pos >= Len(src) THEN [err |-> "Ok", cmds |-> acc]
    ELSE Bind(ScanRun(src, pos), LAMBDA scan :
             IF scan.hang THEN PageErr("hang")
             ELSE IF scan.i > Len(src) THEN PageErr("panic")
             ELSE PageStep(n_styles, src, pos, acc, scan.i))

\* read::page(header, &bytes[offset..]) as dump.rs calls it
ReadPageAt(n_styles, src, offset) ==
    IF offset > Len(src) THEN PageErr("panic") ELSE PageFrom(n_styles, src, offset, <<>>)

(***************************************************************************)
(* The codec as a state machine: a header and a command list are written   *)
(* by write::doc and read back the way bin/edf/dump.rs does: read::header, *)
(* seek_trailer, trailer, then read::page at every trailer offset.         *)
(***************************************************************************)
MaxStyles == 2
MaxCmds == 3

SeqsUpTo(S, n) == UNION {[1..k -> S] : k \in 0..n}

\* the i-th style of the input headers: one- and two-byte names and em sizes
StylePool(i) == Style(IF i % 2 = 1 THEN <<114>> ELSE <<195, 169>>, 24 * i * i * i)

Headers == {[i \in 1..n |-> StylePool(i)] : n \in 0..MaxStyles}

\* the input commands: every opcode, text of one and two bytes per character,
\* empty text, text holding a control character, one- and two-byte operands
InputCommands ==
    {Nop, LineBreak, PageBreak, End,
     Show(<<97>>), Show(<<195, 169>>), Show(<<>>), Show(<<9>>),
     Advance(200), SetCursor(1, 300), SetStyle(1),
     SetAdjustmentRatio(F32(1, 127, 0)), SetLineMetrics(30, 200)}

CodecIdle ==
    /\ hdr = <<>> /\ cmds = <<>> /\ pc = "idle" /\ file = <<>> /\ page_offsets = <<>>
    /\ rpos = 0 /\ rhdr = <<>> /\ rtrailer = <<>> /\ rpage = 0 /\ rcmds = <<>>
    /\ rerr = "Ok"

LayoutIdle ==
    /\ mode = "idle" /\ bbox_h = 0 /\ style = <<>> /\ style_id = 0 /\ line_height = 0
    /\ baseline = 0 /\ whitespace_width = 0 /\ cursor_y = 0 /\ styles = <<>>
    /\ commands = <<>> /\ pages = 0 /\ p_style = <<>> /\ p_style_id = 0
    /\ p_whitespace_width = 0 /\ items = <<>> /\ last_par = <<>>

\* no display::page call, no Fonts, no leb128 call
DisplayIdle == display = <<>>
CacheIdle == fonts = {} /\ glyph_cache = <<>> /\ glyph_cache_size = 0 /\ lookups = <<>>
LebIdle ==
    /\ leb_pc = "idle" /\ leb_val = {} /\ leb_stream = <<>> /\ leb_written = 0
    /\ leb_result = <<>>
MarkdownIdle == context = <<>>
DiffusionIdle == diffusion = <<>>
RestIdle == DisplayIdle /\ CacheIdle /\ LebIdle /\ MarkdownIdle /\ DiffusionIdle

Init ==
    /\ hdr \in Headers
    /\ cmds \in SeqsUpTo(InputCommands, MaxCmds)
    /\ pc = "start" /\ file = <<>> /\ page_offsets = <<>>
    /\ rpos = 0 /\ rhdr = <<>> /\ rtrailer = <<>> /\ rpage = 0 /\ rcmds = <<>>
    /\ rerr = "Ok"
    /\ LayoutIdle /\ RestIdle

\* write::doc
Doc ==
    /\ pc = "start"
    /\ file' = DocBytes(hdr, cmds)
    /\ page_offsets' = EncodePages(Len(EncodeHeader(hdr)), cmds).offsets
    /\ pc' = "written"
    /\ UNCHANGED <<hdr, cmds, rpos, rhdr, rtrailer, rpage, rcmds, rerr>>
    /\ UNCHANGED <<layoutVars, restVars>>

\* read::header
ReadHeader ==
    /\ pc = "written"
    /\ \E h \in {ReadHeaderAt(file)} :
       /\ rerr' = h.err
       /\ rpos' = h.pos
       /\ rhdr' = IF h.err = "Ok" THEN h.val ELSE rhdr
       /\ pc' = IF h.err = "Ok" THEN "header" ELSE "failed"
    /\ UNCHANGED <<hdr, cmds, file, page_offsets, rtrailer, rpage, rcmds>>
    /\ UNCHANGED <<layoutVars, restVars>>

\* read::seek_trailer
SeekTrailer ==
    /\ pc = "header"
    /\ \E s \in {SeekTrailerAt(file)} :
       /\ rerr' = s.err
       /\ rpos' = s.val
       /\ pc' = IF s.err = "Ok" THEN "seeked" ELSE "failed"
    /\ UNCHANGED <<hdr, cmds, file, page_offsets, rhdr, rtrailer, rpage, rcmds>>
    /\ UNCHANGED <<layoutVars, restVars>>

\* read::trailer
ReadTrailer ==
    /\ pc = "seeked"
    /\ \E t \in {ReadTrailerAt(file, rpos)} :
       /\ rerr' = t.err
       /\ rpos' = t.pos
       /\ rtrailer' = IF t.err = "Ok" THEN t.val ELSE rtrailer
       /\ pc' = IF t.err # "Ok" THEN "failed"
                ELSE IF t.val = <<>> THEN "done" ELSE "pages"
    /\ UNCHANGED <<hdr, cmds, file, page_offsets, rhdr, rpage, rcmds>>
    /\ UNCHANGED <<layoutVars, restVars>>

\* read::page at the next trailer offset
ReadPage ==
    /\ pc = "pages"
    /\ \E p \in {ReadPageAt(Len(rhdr), file, rtrailer[rpage + 1])} :
       /\ rerr' = p.err
       /\ rcmds' = rcmds \o p.cmds
       /\ rpage' = rpage + 1
       /\ pc' = IF p.err # "Ok" THEN "failed"
                ELSE IF rpage + 1 = Len(rtrailer) THEN "done" ELSE "pages"
    /\ UNCHANGED <<hdr, cmds, file, page_offsets, rpos, rhdr, rtrailer>>
    /\ UNCHANGED <<layoutVars, restVars>>

Next == Doc \/ ReadHeader \/ SeekTrailer \/ ReadTrailer \/ ReadPage

Spec == Init /\ [][Next]_vars

(***************************************************************************)
(* Properties of the codec.                                                *)
(***************************************************************************)
\* adjacent Show commands fused into one Show holding the concatenated text
RECURSIVE MergeShows(_)
MergeShows(c) ==
    IF Len(c) <= 1 THEN c
    ELSE IF c[1].op = "Show" /\ c[2].op = "Show"
         THEN MergeShows(<<Show(c[1].str \o c[2].str)>> \o SubSeq(c, 3, Len(c)))
         ELSE <<c[1]>> \o MergeShows(Tail(c))

\* a command list inside the domain of the format: no End before the end of the
\* stream, text that is not empty and holds no byte below 0x20, style indices
\* inside the header's table
Encodable(h, c) ==
    \A i \in 1..Len(c) :
        /\ c[i].op # "End"
        /\ c[i].op = "Show" =>
              /\ c[i].str # <<>>
              /\ \A k \in 1..Len(c[i].str) : c[i].str[k] >= 32
        /\ c[i].op = "SetStyle" => c[i].x < Len(h)

\* the offset of the first byte of the trailer (of its n_pages field)
TrailerStart == Len(EncodeHeader(hdr)) + Len(EncodePages(Len(EncodeHeader(hdr)), cmds).bytes)

\* the back_off field: the final 4 bytes of the file, as an i32
BackOff == I32FromLe(SubBytes(file, Len(file) - 4, Len(file)))

\* the indices of the PageBreak commands of c, in order
PageBreakIdx(c) == SelectSeq([i \in 1..Len(c) |-> i], LAMBDA i : c[i].op = "PageBreak")

\* the number of bytes encode_pages writes for the first j commands of c
EncodedLen(c, j) == Len(Flatten([i \in 1..j |-> EncodeCommand(c[i])]))

\* C1 as claimed: writing a header and a command list and reading them back
\* returns the same styles and the same commands with adjacent Shows merged.
C1_RoundTripAsClaimed ==
    pc \in {"done", "failed"} => pc = "done" /\ rhdr = hdr /\ rcmds = MergeShows(cmds)

\* C1 amended: for a command list inside the domain of the format the reads
\* succeed and return the same styles and the same commands with adjacent Shows
\* merged, followed by the End that terminates the last page.
C1_RoundTrip ==
    /\ pc \in {"header", "seeked", "pages", "done"} => rhdr = hdr
    /\ Encodable(hdr, cmds) =>
          /\ pc # "failed"
          /\ pc = "done" => rcmds = MergeShows(cmds) \o <<End>>

C1_Witness ==
    /\ pc = "done" /\ Encodable(hdr, cmds) /\ Len(rtrailer) = 2 /\ Len(hdr) = 2
    /\ \E i \in 1..(Len(cmds) - 1) : cmds[i].op = "Show" /\ cmds[i + 1].op = "Show"

\* C2 as claimed: the final 4 bytes hold a negative back_off and end of file +
\* back_off is the first byte of n_pages.
C2_BackOffAsClaimed ==
    pc # "start" => BackOff < 0 /\ Len(file) + BackOff = TrailerStart

\* C2 amended: the final 4 bytes hold a negative back_off, minus the length of
\* the n_pages and page offset fields, so that end of file + back_off - 4 is the
\* first byte of n_pages.
C2_BackOff ==
    pc # "start" => BackOff < 0 /\ Len(file) + BackOff - 4 = TrailerStart

C2_Witness == pc = "written" /\ Len(page_offsets) >= 3 /\ Len(hdr) = 2

\* C3: seek_trailer on a written file leaves the stream on the first byte of
\* n_pages, and trailer read from there returns the offsets the encoder recorded.
C3_SeekTrailer ==
    /\ pc = "seeked" => rerr = "Ok" /\ rpos = TrailerStart
    /\ pc \in {"pages", "done"} => rtrailer = page_offsets
    /\ pc = "failed" => rpage > 0

C3_Witness == pc = "pages" /\ rpage = 0 /\ Len(rtrailer) >= 3 /\ rtrailer = page_offsets

\* C4: the page offsets of a written file are strictly increasing and the first
\* is the length of the encoded header.
C4_OffsetsIncreasing ==
    pc # "start" =>
        /\ page_offsets[1] = Len(EncodeHeader(hdr))
        /\ \A k \in 1..(Len(page_offsets) - 1) : page_offsets[k] < page_offsets[k + 1]

C4_Witness == pc = "written" /\ Len(page_offsets) >= 3 /\ cmds[1].op # "PageBreak"

\* C5: the trailer has one entry more than the input has PageBreak commands, and
\* every entry after the first is the offset of the byte that follows the
\* corresponding PageBreak opcode.
C5_OffsetsFollowPageBreaks ==
    pc # "start" =>
        /\ Len(page_offsets) = Len(PageBreakIdx(cmds)) + 1
        /\ \A k \in 1..Len(PageBreakIdx(cmds)) :
              /\ page_offsets[k + 1] =
                    Len(EncodeHeader(hdr)) + EncodedLen(cmds, PageBreakIdx(cmds)[k])
              /\ file[page_offsets[k + 1]] = 12

C5_Witness ==
    /\ pc = "written" /\ Len(PageBreakIdx(cmds)) = 2
    /\ \E i \in 1..Len(cmds) : cmds[i].op = "Show"

(***************************************************************************)
(* layout/font_db.rs: the font store.  A face is known by its name and its *)
(* vertical metrics in font units; every glyph has the same advance.       *)
(***************************************************************************)
FontR == <<114>>
FontB == <<98>>
\* a font name the store does not hold
FontX == <<120>>

Faces ==
    {[name |-> FontR, units_per_em |-> 4, ascender |-> 3, descender |-> -1,
      line_gap |-> 1, advance |-> 2],
     [name |-> FontB, units_per_em |-> 4, ascender |-> 4, descender |-> -2,
      line_gap |-> 0, advance |-> 3]}

\* Fonts::get_style on a font the store does not hold
NoFontStyle ==
    [found |-> FALSE, font_name |-> <<>>, em_px |-> 0, line_height |-> 0,
     baseline |-> 0, advance |-> 0]

\* Fonts::get_style: the metrics of a face at em_px pixels per em, truncated
FontsGetStyle(st) ==
    IF \A f \in Faces : f.name # st.font_name THEN NoFontStyle
    ELSE Bind(CHOOSE f \in Faces : f.name = st.font_name, LAMBDA f :
        [found |-> TRUE, font_name |-> f.name, em_px |-> st.em_px,
         line_height |->
            ((f.ascender - f.descender + f.line_gap) * st.em_px) \div f.units_per_em,
         baseline |->
            ((f.ascender - f.descender + f.line_gap - f.ascender) * st.em_px)
                \div f.units_per_em,
         advance |-> (f.advance * st.em_px) \div f.units_per_em])

\* FontStyle::measure_string: the width of a string of one-byte characters
MeasureString(fs, str) == Len(str) * fs.advance

(***************************************************************************)
(* layout/builder.rs: the items of a paragraph.  Widths are kept in        *)
(* eighteenths of a pixel, so that em_px/3, its half and its third are     *)
(* whole numbers.                                                          *)
(***************************************************************************)
WidthUnit == 18

Item(kind, data, width, id, lh, bl, str) ==
    [kind |-> kind, data |-> data, width |-> width, id |-> id, line_height |-> lh,
     baseline |-> bl, text |-> str]
BoxIndent(width) == Item("Box", "Indent", width, 0, 0, 0, <<>>)
BoxSetStyle(id, lh, bl) == Item("Box", "SetStyle", 0, id, lh, bl, <<>>)
BoxWord(str, width) == Item("Box", "Word", width, 0, 0, 0, str)
BoxChar(str, width) == Item("Box", "Char", width, 0, 0, 0, str)
\* data is "Finite" for whitespace and "Infinite" for a ragged-right terminator
Glue(width, data) == Item("Glue", data, width, 0, 0, 0, <<>>)
\* data is "SoftHyphen", "HardHyphen" (cost 50) or "HardBreak" (cost -infinity)
Penalty(data) == Item("Penalty", data, 0, 0, 0, 0, <<>>)

\* em_px as f32 / 3.0
WhitespaceWidth(fs) == (WidthUnit * fs.em_px) \div 3

\* `width as u16`: truncation, saturating at the ends of u16
AsU16(width) ==
    IF width < 0 THEN 0
    ELSE IF width \div WidthUnit > U16Max THEN U16Max ELSE width \div WidthUnit

(***************************************************************************)
(* layout/builder.rs: Builder.  A builder is the record of its fields.     *)
(***************************************************************************)
\* the style handed to Builder::new
DefaultStyle == FontsGetStyle(Style(FontR, 4))

BuilderNew ==
    [style |-> DefaultStyle, style_id |-> 0,
     line_height |-> DefaultStyle.line_height, baseline |-> DefaultStyle.baseline,
     whitespace_width |-> WhitespaceWidth(DefaultStyle),
     cursor_y |-> DefaultStyle.em_px,
     styles |-> <<Style(DefaultStyle.font_name, DefaultStyle.em_px)>>,
     commands |-> <<>>, pages |-> 0]

\* the index of the first entry of tbl equal to st (the entry exists)
IndexOf(tbl, st) == CHOOSE i \in 1..Len(tbl) : tbl[i] = st /\ \A j \in 1..(i - 1) : tbl[j] # st

\* Builder::get_style without the search of the table
GetStyleNoSearch(b, st) ==
    Bind(FontsGetStyle(st), LAMBDA fs :
        IF ~fs.found THEN [style |-> DefaultStyle, id |-> 0, styles |-> b.styles]
        ELSE [style |-> fs, id |-> Len(b.styles), styles |-> Append(b.styles, st)])

\* Builder::get_style appending a style whose font the store does not hold
GetStyleAppendsMissing(b, st) ==
    Bind(FontsGetStyle(st), LAMBDA fs :
        IF \E i \in 1..Len(b.styles) : b.styles[i] = st
        THEN [style |-> IF fs.found THEN fs ELSE DefaultStyle,
              id |-> IndexOf(b.styles, st) - 1, styles |-> b.styles]
        ELSE [style |-> IF fs.found THEN fs ELSE DefaultStyle,
              id |-> Len(b.styles), styles |-> Append(b.styles, st)])

\* Builder::get_style returning the length of the table as the id of a new style
GetStyleLenAsId(b, st) ==
    Bind(FontsGetStyle(st), LAMBDA fs :
        IF ~fs.found THEN [style |-> DefaultStyle, id |-> 0, styles |-> b.styles]
        ELSE IF \E i \in 1..Len(b.styles) : b.styles[i] = st
        THEN [style |-> fs, id |-> IndexOf(b.styles, st) - 1, styles |-> b.styles]
        ELSE [style |-> fs, id |-> Len(b.styles) + 1, styles |-> Append(b.styles, st)])

\* Builder::get_style: the font style, its id and the style table
GetStyle(b, st) ==
    Bind(FontsGetStyle(st), LAMBDA fs :
        IF ~fs.found THEN [style |-> DefaultStyle, id |-> 0, styles |-> b.styles]
        ELSE IF \E i \in 1..Len(b.styles) : b.styles[i] = st
        THEN [style |-> fs, id |-> IndexOf(b.styles, st) - 1, styles |-> b.styles]
        ELSE [style |-> fs, id |-> Len(b.styles), styles |-> Append(b.styles, st)])

\* Builder::set_style without the comparison of the id with the current one
SetStyleAlways(b, st) ==
    Bind(GetStyle(b, st), LAMBDA g :
        [b EXCEPT !.styles = g.styles,
                  !.line_height = g.style.line_height,
                  !.baseline = g.style.baseline,
                  !.whitespace_width = WhitespaceWidth(g.style),
                  !.style = g.style,
                  !.style_id = g.id,
                  !.commands = @ \o <<SetStyle(g.id),
                                     SetLineMetrics(g.style.line_height,
                                                    g.style.baseline)>>])

\* Builder::set_style
SetStyleOn(b, st) ==
    Bind(GetStyle(b, st), LAMBDA g :
        IF g.id # b.style_id
        THEN [b EXCEPT !.styles = g.styles,
                       !.line_height = g.style.line_height,
                       !.baseline = g.style.baseline,
                       !.whitespace_width = WhitespaceWidth(g.style),
                       !.style = g.style,
                       !.style_id = g.id,
                       !.commands = @ \o <<SetStyle(g.id),
                                          SetLineMetrics(g.style.line_height,
                                                         g.style.baseline)>>]
        ELSE [b EXCEPT !.styles = g.styles])

\* Builder::page_break
PageBreakOn(b) ==
    [b EXCEPT !.commands = @ \o <<PageBreak, SetStyle(b.style_id),
                                 SetLineMetrics(b.line_height, b.baseline)>>,
              !.pages = @ + 1,
              !.cursor_y = 0]

\* Builder::advance_line that never breaks the page
AdvanceLineNoPageBreak(b, height) ==
    [b EXCEPT !.commands = Append(@, LineBreak), !.cursor_y = @ + b.line_height]

\* Builder::advance_line on a page of the given height
AdvanceLineOn(b, height) ==
    IF height - b.cursor_y < b.line_height THEN PageBreakOn(b)
    ELSE [b EXCEPT !.commands = Append(@, LineBreak), !.cursor_y = @ + b.line_height]

(***************************************************************************)
(* layout/builder.rs: ParagraphBuilder.  The operations that push items.   *)
(***************************************************************************)
\* char::is_whitespace on a one-byte character
IsWhitespaceByte(c) == c = 32 \/ (c >= 9 /\ c <= 13)

IsWhitespace(str) == \A i \in 1..Len(str) : IsWhitespaceByte(str[i])

\* "-" (the en dash of the source takes three bytes and is no input here)
IsHyphen(str) == str = <<45>>

\* ParagraphBuilder::whitespace
WhitespaceItems(its, ws) == Append(its, Glue(ws, "Finite"))

\* ParagraphBuilder::hard_line_break
HardLineBreakItems(its) == its \o <<Glue(0, "Infinite"), Penalty("HardBreak")>>

\* the loop over the hyphenation offsets in ParagraphBuilder::word
RECURSIVE SoftPieces(_, _, _, _, _)
SoftPieces(fs, wd, breaks, k, last) ==
    IF k > Len(breaks) THEN <<>>
    ELSE <<BoxWord(SubBytes(wd, last, breaks[k]),
                   WidthUnit * MeasureString(fs, SubBytes(wd, last, breaks[k]))),
           Penalty("SoftHyphen")>>
         \o SoftPieces(fs, wd, breaks, k + 1, breaks[k])

\* ParagraphBuilder::word, breaks being what the hyphenator returned
WordItems(its, fs, ws, wd, breaks) ==
    IF IsWhitespace(wd) THEN WhitespaceItems(its, ws)
    ELSE Bind(IF breaks = <<>> THEN wd ELSE SubBytes(wd, breaks[Len(breaks)], Len(wd)),
              LAMBDA rest :
                its \o SoftPieces(fs, wd, breaks, 1, 0)
                    \o <<BoxWord(rest, WidthUnit * MeasureString(fs, rest))>>
                    \o (IF IsHyphen(rest) THEN <<Penalty("HardHyphen")>> ELSE <<>>))

\* ParagraphBuilder::char
CharItems(its, fs, ws, c) ==
    IF IsWhitespace(c) THEN WhitespaceItems(its, ws)
    ELSE its \o <<BoxChar(c, WidthUnit * MeasureString(fs, c))>>
             \o (IF IsHyphen(c) THEN <<Penalty("HardHyphen")>> ELSE <<>>)

\* split_word_bounds on letters and single spaces: maximal runs of letters, and
\* every space on its own
RECURSIVE SplitWordBounds(_, _)
SplitWordBounds(str, acc) ==
    IF str = <<>> THEN (IF acc = <<>> THEN <<>> ELSE <<acc>>)
    ELSE IF IsWhitespaceByte(Head(str))
    THEN (IF acc = <<>> THEN <<>> ELSE <<acc>>) \o <<<<Head(str)>>>>
            \o SplitWordBounds(Tail(str), <<>>)
    ELSE SplitWordBounds(Tail(str), Append(acc, Head(str)))

\* ParagraphBuilder::text: word() on every piece, hyph[k] being what the
\* hyphenator returned for the k-th piece
RECURSIVE TextItems(_, _, _, _, _, _)
TextItems(its, fs, ws, wds, hyph, k) ==
    IF k > Len(wds) THEN its
    ELSE TextItems(WordItems(its, fs, ws, wds[k], hyph[k]), fs, ws, wds, hyph, k + 1)

\* what a Hyphenator may return for a word: increasing offsets inside the word
Hyphenations(wd) ==
    IF Len(wd) < 2 THEN {<<>>}
    ELSE {<<>>} \cup {<<o>> : o \in 1..(Len(wd) - 1)}

(***************************************************************************)
(* layout/builder.rs: ParagraphBuilder::paragraph_break.  Item indices are *)
(* 1-based here.                                                           *)
(***************************************************************************)
\* an early return for the paragraph without items only
NothingToLayOutEmptyOnly(its) == Len(its) = 0

\* the early returns: no item, or a single Indent
NothingToLayOut(its) == Len(its) = 0 \/ (Len(its) = 1 /\ its[1].data = "Indent")

\* the items with the terminating glue and penalty appended
Terminated(its) == its \o <<Glue(0, "Infinite"), Penalty("HardBreak")>>

\* a line that starts with new line metrics recorded
LineStartWithMetrics(clh, cbl) ==
    [commands |-> <<>>, text |-> <<>>, any_text |-> FALSE, push_line_metrics |-> TRUE,
     current_line_height |-> clh, current_baseline |-> cbl, panic |-> FALSE]

LineStart(clh, cbl) ==
    [commands |-> <<>>, text |-> <<>>, any_text |-> FALSE, push_line_metrics |-> FALSE,
     current_line_height |-> clh, current_baseline |-> cbl, panic |-> FALSE]

\* the text accumulated so far becomes a Show before a SetStyle
FlushText(ls) ==
    IF ls.text # <<>>
    THEN [ls EXCEPT !.commands = Append(@, Show(ls.text)), !.text = <<>>, !.any_text = TRUE]
    ELSE ls

\* the SetStyle arm of the loop over the items of a line
SetStyleArm(ls, it) ==
    Bind(FlushText(ls), LAMBDA f :
        IF (~f.any_text /\ it.line_height # f.current_line_height)
           \/ it.line_height > f.current_line_height
        THEN [f EXCEPT !.commands = Append(@, SetStyle(it.id)),
                       !.current_line_height = it.line_height,
                       !.current_baseline = it.baseline,
                       !.push_line_metrics = TRUE]
        ELSE [f EXCEPT !.commands = Append(@, SetStyle(it.id))])

\* one turn of the loop over the items of a line
LineStep(ls, it) ==
    IF it.kind = "Box" /\ it.data = "SetStyle" THEN SetStyleArm(ls, it)
    ELSE IF it.kind = "Box" /\ it.data = "Indent"
    THEN (IF ls.text # <<>> THEN [ls EXCEPT !.panic = TRUE]
          ELSE [ls EXCEPT !.commands = Append(@, Advance(AsU16(it.width)))])
    ELSE IF it.kind = "Box" THEN [ls EXCEPT !.text = @ \o it.text]
    ELSE IF it.kind = "Glue" THEN [ls EXCEPT !.text = Append(@, 32)]
    ELSE ls

\* a loop over the items of a line that takes in the item of the break
RECURSIVE LineFoldThroughBreak(_, _, _, _)
LineFoldThroughBreak(ls, its, i, last) ==
    IF i > last \/ ls.panic THEN ls
    ELSE LineFoldThroughBreak(LineStep(ls, its[i]), its, i + 1, last)

\* the loop over the items first..last-1 of a line
RECURSIVE LineFold(_, _, _, _)
LineFold(ls, its, i, last) ==
    IF i >= last \/ ls.panic THEN ls
    ELSE LineFold(LineStep(ls, its[i]), its, i + 1, last)

\* the commands of a line with a hyphen at every break at a penalty
LineCommandsHyphenAtPenalty(its, first, last, clh, cbl) ==
    Bind(LineFold(LineStart(clh, cbl), its, first, last), LAMBDA ls :
        Bind(IF its[last].kind = "Penalty" THEN Append(ls.text, 45) ELSE ls.text,
             LAMBDA str :
                IF str # <<>> THEN [ls EXCEPT !.commands = Append(@, Show(str))] ELSE ls))

\* the commands of the line items[first..last]: the loop, the hyphen of a soft
\* hyphen break, the final Show
LineCommands(its, first, last, clh, cbl) ==
    Bind(LineFold(LineStart(clh, cbl), its, first, last), LAMBDA ls :
        Bind(IF its[last].kind = "Penalty" /\ its[last].data = "SoftHyphen"
             THEN Append(ls.text, 45) ELSE ls.text,
             LAMBDA str :
                IF str # <<>> THEN [ls EXCEPT !.commands = Append(@, Show(str))] ELSE ls))

\* a line pushed without its SetAdjustmentRatio
EmitLineNoRatio(b, ln, r) ==
    [b EXCEPT !.commands =
                  @ \o (IF ln.push_line_metrics
                        THEN <<SetLineMetrics(ln.current_line_height, ln.current_baseline)>>
                        ELSE <<>>)
                    \o ln.commands,
              !.line_height = ln.current_line_height,
              !.baseline = ln.current_baseline]

\* the commands of a line pushed onto the builder, and its line metrics
EmitLine(b, ln, r) ==
    [b EXCEPT !.commands =
                  @ \o (IF ln.push_line_metrics
                        THEN <<SetLineMetrics(ln.current_line_height, ln.current_baseline)>>
                        ELSE <<>>)
                    \o <<SetAdjustmentRatio(r)>> \o ln.commands,
              !.line_height = ln.current_line_height,
              !.baseline = ln.current_baseline]

\* the loop over the breaks, from the k-th on; a failed assertion ends it
RECURSIVE Paginate(_, _, _, _, _, _, _, _)
Paginate(b, height, its, breaks, k, item, clh, cbl) ==
    IF k > Len(breaks) THEN [b |-> b, panic |-> FALSE]
    ELSE Bind(LineCommands(its, item, breaks[k].break_at, clh, cbl), LAMBDA ln :
        IF ln.panic THEN [b |-> b, panic |-> TRUE]
        ELSE Paginate(AdvanceLineOn(EmitLine(b, ln, breaks[k].adjustment_ratio), height),
                      height, its, breaks, k + 1, breaks[k].break_at + 1,
                      ln.current_line_height, ln.current_baseline))

\* paragraph_break, breaks being the lines the line breaker returned
ParagraphBreak(b, height, its, breaks) ==
    IF NothingToLayOut(its) THEN [b |-> b, panic |-> FALSE]
    ELSE Paginate(b, height, Terminated(its), breaks, 1, 1, b.line_height, b.baseline)

(***************************************************************************)
(* The line breakers of the text_layout crate (KnuthPlass, then FirstFit   *)
(* with overflow allowed) are not part of the repository.  They return the *)
(* lines of a paragraph as breaks at legal breakpoints: a penalty, or a    *)
(* glue that follows a box.  Every forced break and the final item are     *)
(* breaks.  Which of the other breakpoints are taken depends on the        *)
(* widths, and so does the adjustment ratio of a line: any choice is       *)
(* possible here.                                                          *)
(***************************************************************************)
LegalBreak(its, i) ==
    \/ its[i].kind = "Penalty"
    \/ its[i].kind = "Glue" /\ i > 1 /\ its[i - 1].kind = "Box"

ForcedBreak(its, i) == its[i].kind = "Penalty" /\ its[i].data = "HardBreak"

\* the members of a set of numbers in increasing order
RECURSIVE Sorted(_)
Sorted(S) ==
    IF S = {} THEN <<>>
    ELSE Bind(CHOOSE m \in S : \A x \in S : m <= x, LAMBDA m : <<m>> \o Sorted(S \ {m}))

AdjustmentRatios == {F32Zero, F32(1, 126, 0)}

BreakSets(its) ==
    {S \in SUBSET {i \in 1..Len(its) : LegalBreak(its, i)} :
        /\ Len(its) \in S
        /\ \A i \in 1..Len(its) : ForcedBreak(its, i) => i \in S}

\* layout_paragraph on the items of a paragraph that is laid out
LayoutParagraph(its) ==
    UNION {{[k \in 1..Cardinality(S) |->
                [break_at |-> Sorted(S)[k], adjustment_ratio |-> r[k]]] :
            r \in [1..Cardinality(S) -> AdjustmentRatios]} : S \in BreakSets(its)}

\* the lines of the paragraph that finish() lays out: none on an early return
Lines(its) == IF NothingToLayOut(its) THEN {<<>>} ELSE LayoutParagraph(Terminated(its))

(***************************************************************************)
(* The builder as a state machine: a Builder is made by Builder::new, then *)
(* its operations are called in any order; paragraph() turns it into a     *)
(* ParagraphBuilder and finish() back into a Builder.                      *)
(***************************************************************************)
\* no operation is called on a paragraph that holds MaxItems items or more
MaxItems == 3
\* no operation but finish() is called once MaxCommands commands are emitted
MaxCommands == 4

\* the content heights of the pages: below and above the em of the default style
Heights == {3, 8}

\* the styles asked for: the default, one with taller lines, one whose font is
\* missing
StyleRequests == {Style(FontR, 4), Style(FontB, 4), Style(FontX, 4)}

\* the words, characters and texts handed to the paragraph: "ab" and "-", "c" and
\* " ", "a b"
Words == {<<97, 98>>, <<45>>}
Chars == {<<99>>, <<32>>}
Texts == {<<97, 32, 98>>}
IndentSizes == {4}
IndentPxSizes == {10}

BuilderRec ==
    [style |-> style, style_id |-> style_id, line_height |-> line_height,
     baseline |-> baseline, whitespace_width |-> whitespace_width,
     cursor_y |-> cursor_y, styles |-> styles, commands |-> commands, pages |-> pages]

SetBuilder(b) ==
    /\ style' = b.style /\ style_id' = b.style_id /\ line_height' = b.line_height
    /\ baseline' = b.baseline /\ whitespace_width' = b.whitespace_width
    /\ cursor_y' = b.cursor_y /\ styles' = b.styles /\ commands' = b.commands
    /\ pages' = b.pages

builderVars == <<style, style_id, line_height, baseline, whitespace_width, cursor_y,
                 styles, commands, pages>>
paragraphVars == <<p_style, p_style_id, p_whitespace_width, items>>

NoParagraph ==
    /\ p_style = <<>> /\ p_style_id = 0 /\ p_whitespace_width = 0 /\ items = <<>>

\* Builder::new
InitLayout ==
    /\ CodecIdle /\ RestIdle
    /\ mode = "doc"
    /\ bbox_h \in Heights
    /\ style = BuilderNew.style /\ style_id = BuilderNew.style_id
    /\ line_height = BuilderNew.line_height /\ baseline = BuilderNew.baseline
    /\ whitespace_width = BuilderNew.whitespace_width
    /\ cursor_y = BuilderNew.cursor_y /\ styles = BuilderNew.styles
    /\ commands = BuilderNew.commands /\ pages = BuilderNew.pages
    /\ NoParagraph
    /\ last_par = [start |-> 0, end |-> 0, lines |-> 0]

\* Builder::set_style
set_style ==
    /\ mode = "doc" /\ Len(commands) < MaxCommands
    /\ \E st \in StyleRequests : SetBuilder(SetStyleOn(BuilderRec, st))
    /\ UNCHANGED <<mode, bbox_h, paragraphVars, last_par>>
    /\ UNCHANGED <<codecVars, restVars>>

\* Builder::advance_line
advance_line ==
    /\ mode = "doc" /\ Len(commands) < MaxCommands
    /\ SetBuilder(AdvanceLineOn(BuilderRec, bbox_h))
    /\ UNCHANGED <<mode, bbox_h, paragraphVars, last_par>>
    /\ UNCHANGED <<codecVars, restVars>>

\* Builder::page_break
page_break ==
    /\ mode = "doc" /\ Len(commands) < MaxCommands
    /\ SetBuilder(PageBreakOn(BuilderRec))
    /\ UNCHANGED <<mode, bbox_h, paragraphVars, last_par>>
    /\ UNCHANGED <<codecVars, restVars>>

\* Builder::paragraph
paragraph ==
    /\ mode = "doc" /\ Len(commands) < MaxCommands
    /\ mode' = "paragraph"
    /\ p_style' = style /\ p_style_id' = style_id
    /\ p_whitespace_width' = whitespace_width
    /\ items' = <<>>
    /\ UNCHANGED <<bbox_h, builderVars, last_par>>
    /\ UNCHANGED <<codecVars, restVars>>

\* ParagraphBuilder::set_style
p_set_style ==
    /\ mode = "paragraph" /\ Len(items) < MaxItems
    /\ \E st \in StyleRequests : \E g \in {GetStyle(BuilderRec, st)} :
          /\ styles' = g.styles
          /\ IF g.id # p_style_id
             THEN /\ p_whitespace_width' = WhitespaceWidth(g.style)
                  /\ items' = Append(items, BoxSetStyle(g.id, g.style.line_height,
                                                        g.style.baseline))
                  /\ p_style' = g.style
                  /\ p_style_id' = g.id
             ELSE UNCHANGED paragraphVars
    /\ UNCHANGED <<mode, bbox_h, style, style_id, line_height, baseline,
                   whitespace_width, cursor_y, commands, pages, last_par>>
    /\ UNCHANGED <<codecVars, restVars>>

\* what the operations that only push items leave alone
PushOnly ==
    /\ UNCHANGED <<mode, bbox_h, builderVars, p_style, p_style_id, p_whitespace_width,
                   last_par>>
    /\ UNCHANGED <<codecVars, restVars>>

\* ParagraphBuilder::indent
indent ==
    /\ mode = "paragraph" /\ Len(items) < MaxItems
    /\ \E size \in IndentSizes : items' = Append(items, BoxIndent(size * p_whitespace_width))
    /\ PushOnly

\* ParagraphBuilder::indent_px
indent_px ==
    /\ mode = "paragraph" /\ Len(items) < MaxItems
    /\ \E size \in IndentPxSizes : items' = Append(items, BoxIndent(WidthUnit * size))
    /\ PushOnly

\* ParagraphBuilder::hard_line_break
hard_line_break ==
    /\ mode = "paragraph" /\ Len(items) < MaxItems
    /\ items' = HardLineBreakItems(items)
    /\ PushOnly

\* ParagraphBuilder::soft_line_break
soft_line_break ==
    /\ mode = "paragraph" /\ Len(items) < MaxItems
    /\ items' = WhitespaceItems(items, p_whitespace_width)
    /\ PushOnly

\* ParagraphBuilder::whitespace
whitespace ==
    /\ mode = "paragraph" /\ Len(items) < MaxItems
    /\ items' = WhitespaceItems(items, p_whitespace_width)
    /\ PushOnly

\* ParagraphBuilder::text
text ==
    /\ mode = "paragraph" /\ Len(items) < MaxItems
    /\ \E str \in Texts : \E wds \in {SplitWordBounds(str, <<>>)} :
       \E hyph \in [1..Len(wds) -> UNION {Hyphenations(w) : w \in Words \cup Range(wds)}] :
          /\ \A k \in 1..Len(wds) : hyph[k] \in Hyphenations(wds[k])
          /\ items' = TextItems(items, p_style, p_whitespace_width, wds, hyph, 1)
    /\ PushOnly

\* ParagraphBuilder::word
word ==
    /\ mode = "paragraph" /\ Len(items) < MaxItems
    /\ \E wd \in Words : \E breaks \in Hyphenations(wd) :
          items' = WordItems(items, p_style, p_whitespace_width, wd, breaks)
    /\ PushOnly

\* ParagraphBuilder::char
char ==
    /\ mode = "paragraph" /\ Len(items) < MaxItems
    /\ \E c \in Chars : items' = CharItems(items, p_style, p_whitespace_width, c)
    /\ PushOnly

\* ParagraphBuilder::finish: paragraph_break, then the style of the paragraph
\* becomes the style of the builder.  A failed assertion ends the program.
finish ==
    /\ mode = "paragraph"
    /\ \E breaks \in Lines(items) :
       \E res \in {ParagraphBreak(BuilderRec, bbox_h, items, breaks)} :
          IF res.panic
          THEN /\ mode' = "panicked"
               /\ UNCHANGED <<builderVars, paragraphVars, last_par>>
          ELSE /\ mode' = "doc"
               /\ SetBuilder([res.b EXCEPT !.style = p_style,
                                           !.style_id = p_style_id,
                                           !.whitespace_width = p_whitespace_width])
               /\ p_style' = <<>> /\ p_style_id' = 0 /\ p_whitespace_width' = 0
               /\ items' = <<>>
               /\ last_par' = [start |-> Len(commands), end |-> Len(res.b.commands),
                               lines |-> Len(breaks)]
    /\ UNCHANGED bbox_h
    /\ UNCHANGED <<codecVars, restVars>>

NextLayout ==
    \/ set_style \/ advance_line \/ page_break \/ paragraph
    \/ p_set_style \/ indent \/ indent_px \/ hard_line_break \/ soft_line_break
    \/ whitespace \/ text \/ word \/ char \/ finish

SpecLayout == InitLayout /\ [][NextLayout]_vars

(***************************************************************************)
(* Properties of the builder.                                              *)
(***************************************************************************)
\* the indices below k of the commands of c with the given opcode
Before(c, k, op) == {j \in 1..(k - 1) : c[j].op = op}

Max(S) == CHOOSE m \in S : \A x \in S : x <= m

\* the style id in effect at the k-th command of a stream replayed from its
\* start: that of the latest SetStyle before it, style 0 if there is none
StyleAt(c, k) ==
    IF Before(c, k, "SetStyle") = {} THEN 0 ELSE c[Max(Before(c, k, "SetStyle"))].x

\* the line metrics in effect at the k-th command: those of the latest
\* SetLineMetrics before it, those of the default style if there is none
MetricsAt(c, k) ==
    IF Before(c, k, "SetLineMetrics") = {}
    THEN SetLineMetrics(DefaultStyle.line_height, DefaultStyle.baseline)
    ELSE c[Max(Before(c, k, "SetLineMetrics"))]

IsTerminator(cmd) == cmd.op \in {"LineBreak", "PageBreak"}

\* the commands of the last paragraph laid out
LastPar == SubSeq(commands, last_par.start + 1, last_par.end)

\* the indices of the terminators of c, in order
Terminators(c) == SelectSeq([i \in 1..Len(c) |-> i], LAMBDA i : IsTerminator(c[i]))

\* the number of commands of c[from..to] with the given opcode
Count(c, from, to, op) == Cardinality({j \in from..to : c[j].op = op})

\* C6: every SetStyle in the command vector of the builder names an entry of
\* the style table that finish() returns.
C6_StyleIdsInTable ==
    \A k \in 1..Len(commands) : commands[k].op = "SetStyle" => commands[k].x < Len(styles)

C6_Witness ==
    /\ mode = "doc" /\ Len(styles) = 2 /\ pages > 0 /\ last_par.lines > 0
    /\ \E k \in (last_par.start + 1)..last_par.end : commands[k] = SetStyle(1)
    /\ \E k \in 1..last_par.start : commands[k] = SetStyle(0)

\* C7: the SetStyle and SetLineMetrics that follow a PageBreak carry the style id
\* and the line metrics in effect at that point of the command stream.
C7_PageBreakRestoresStyle ==
    \A k \in 1..Len(commands) :
        commands[k].op = "PageBreak" =>
            /\ k + 2 <= Len(commands)
            /\ commands[k + 1] = SetStyle(StyleAt(commands, k))
            /\ commands[k + 2] = MetricsAt(commands, k)

\* C8: the commands of a paragraph hold one SetAdjustmentRatio per line, every
\* line ends with one LineBreak or PageBreak, and nothing is shown after the
\* last of them.
C8_OneRatioAndBreakPerLine ==
    /\ Len(Terminators(LastPar)) = last_par.lines
    /\ Count(LastPar, 1, Len(LastPar), "SetAdjustmentRatio") = last_par.lines
    /\ \A j \in 1..Len(Terminators(LastPar)) :
          Count(LastPar, IF j = 1 THEN 1 ELSE Terminators(LastPar)[j - 1] + 1,
                Terminators(LastPar)[j], "SetAdjustmentRatio") = 1
    /\ last_par.lines > 0 =>
          \A k \in (Terminators(LastPar)[last_par.lines] + 1)..Len(LastPar) :
              LastPar[k].op \in {"SetStyle", "SetLineMetrics"}

C8_Witness ==
    /\ last_par.lines >= 2
    /\ \E k \in 1..Len(LastPar) : LastPar[k].op = "LineBreak"
    /\ \E k \in 1..Len(LastPar) : LastPar[k].op = "PageBreak"
    /\ \E k \in 1..Len(LastPar) : LastPar[k].op = "Show"

LineHeightOf(id) == FontsGetStyle(styles[id + 1]).line_height

\* the index of the first terminator of c after the k-th command
NextTerminator(c, k) == CHOOSE t \in (k + 1)..Len(c) :
    IsTerminator(c[t]) /\ \A j \in (k + 1)..(t - 1) : ~IsTerminator(c[j])

\* C10: the line height in effect at the LineBreak or PageBreak of a line is at
\* least the line height of every style in which the line shows text.
C10_LineHeightCoversStyles ==
    \A k \in 1..Len(commands) :
        commands[k].op = "Show" =>
            MetricsAt(commands, NextTerminator(commands, k)).x
                >= LineHeightOf(StyleAt(commands, k))

\* the style requests whose font the store does not hold
MissingRequests == {st \in StyleRequests : ~FontsGetStyle(st).found}

\* C11: the style table holds no two equal entries, resolving an entry of the
\* table again returns its index and leaves the table alone, and a step never
\* moves or removes an entry.
C11_StyleTableStable ==
    /\ [](mode # "idle" =>
            /\ \A i, j \in 1..Len(styles) : styles[i] = styles[j] => i = j
            /\ \A i \in 1..Len(styles) :
                  /\ GetStyle(BuilderRec, styles[i]).id = i - 1
                  /\ GetStyle(BuilderRec, styles[i]).styles = styles)
    /\ [][/\ Len(styles') >= Len(styles)
          /\ SubSeq(styles', 1, Len(styles)) = styles]_vars

C11_Witness ==
    /\ mode = "paragraph" /\ Len(styles) = 2 /\ style_id = 1 /\ Len(items) = 2
    /\ items[1].data = "SetStyle" /\ items[1].id = 0
    /\ items[2].data = "SetStyle" /\ items[2].id = 1
    /\ \E k \in 1..Len(commands) : commands[k] = SetStyle(1)

\* C12: Builder::set_style called a second time with the same style changes no
\* field of the builder and emits no command.
C12_SetStyleIdempotent ==
    mode = "doc" =>
        \A st \in StyleRequests :
            SetStyleOn(SetStyleOn(BuilderRec, st), st) = SetStyleOn(BuilderRec, st)

C12_Witness ==
    /\ mode = "doc" /\ style_id = 1 /\ Len(styles) = 2
    /\ commands = <<SetStyle(1), SetLineMetrics(line_height, baseline)>>
    /\ SetStyleOn(BuilderRec, styles[2]) = BuilderRec

\* C13: a style whose font the store does not hold resolves to the default style
\* and id 0 and appends nothing, so that no entry of the style table names such
\* a font, and set_style with it does what set_style with the default style does.
C13_MissingFontIsDefault ==
    mode # "idle" =>
        /\ \A i \in 1..Len(styles) : FontsGetStyle(styles[i]).found
        /\ \A st \in MissingRequests :
              /\ GetStyle(BuilderRec, st) =
                    [style |-> DefaultStyle, id |-> 0, styles |-> styles]
              /\ SetStyleOn(BuilderRec, st) = SetStyleOn(BuilderRec, styles[1])

C13_Witness ==
    /\ mode = "doc" /\ style_id = 0 /\ Len(styles) = 2 /\ MissingRequests # {}
    /\ commands = <<SetStyle(1), SetLineMetrics(6, 2),
                    SetStyle(0), SetLineMetrics(5, 2)>>

(***************************************************************************)
(* The readers of lib.rs called on any input: a file write::doc wrote, or  *)
(* bytes that come from elsewhere.  Each of read::header, read::seek_trailer *)
(* and read::page is called on the input as it stands; read::trailer is    *)
(* called where seek_trailer left the stream.                              *)
(***************************************************************************)
\* the inputs from elsewhere hold up to MaxBytes bytes of ByteAlphabet
MaxBytes == 3

\* 0x00, 0x01, PageBreak, "a", Nop (also a continuation byte), Advance,
\* SetCursor, SetStyle, SetAdjustmentRatio, SetLineMetrics, End, the first byte
\* of a two-byte character
ByteAlphabet == {0, 1, 12, 97, 128, 129, 130, 131, 132, 133, 191, 195}

\* the values of the back_off field of the inputs that end in one
BackOffs == {-Pow2(30) - Pow2(30), -5, -1, 0, 1, 3, 4, 5, Pow2(30) - 1 + Pow2(30)}

\* the magic number, and the magic number with one byte changed
MagicVariants == {Magic} \cup {[Magic EXCEPT ![i] = b] : i \in 1..4, b \in {0, 14}}

ByteInputs ==
    SeqsUpTo(ByteAlphabet, MaxBytes)
    \cup {p \o I32ToLe(v) : p \in SeqsUpTo(ByteAlphabet, 1), v \in BackOffs}
    \cup {m \o t : m \in MagicVariants, t \in SeqsUpTo(ByteAlphabet, 1)}
    \* the bytes 0xC0, 0xC1, 0xF5 and 0xFF, which start no UTF-8 character
    \cup {p \o <<b>> \o t : p \in SeqsUpTo({97, 130}, 1), b \in {192, 193, 245, 255},
                            t \in SeqsUpTo({97, 12}, 1)}

\* the documents written before they are read
WrittenCommands == SeqsUpTo(InputCommands, 1)

InitRead ==
    /\ \/ /\ pc = "start" /\ hdr \in Headers /\ cmds \in WrittenCommands /\ file = <<>>
       \/ /\ pc = "input" /\ hdr = <<>> /\ cmds = <<>> /\ file \in ByteInputs
    /\ page_offsets = <<>>
    /\ rpos = 0 /\ rhdr = <<>> /\ rtrailer = <<>> /\ rpage = 0 /\ rcmds = <<>>
    /\ rerr = "Ok"
    /\ LayoutIdle /\ RestIdle

\* seek_trailer under a build: `i32::from_le_bytes(buf) - 4` below i32::MIN
\* panics where overflow is checked and wraps to a positive offset where it is
\* not
SeekTrailerBuilt(src, overflow_checks) ==
    Bind(SeekTrailerAt(src), LAMBDA r :
        IF r.err = "panic" /\ ~overflow_checks
        THEN [err |-> "InvalidEncoding", val |-> Len(src)]
        ELSE r)

\* read::header on the input
header ==
    /\ pc \in {"written", "input"}
    /\ \E h \in {ReadHeaderAt(file)} :
       /\ rerr' = h.err
       /\ rpos' = h.pos
       /\ rhdr' = IF h.err = "Ok" THEN h.val ELSE rhdr
    /\ pc' = "r_header"
    /\ UNCHANGED <<hdr, cmds, file, page_offsets, rtrailer, rpage, rcmds>>
    /\ UNCHANGED <<layoutVars, restVars>>

\* read::seek_trailer on the input
seek_trailer ==
    /\ pc \in {"written", "input"}
    /\ \E overflow_checks \in BOOLEAN : \E r \in {SeekTrailerBuilt(file, overflow_checks)} :
       /\ rerr' = r.err
       /\ rpos' = r.val
    /\ pc' = "r_seek_trailer"
    /\ UNCHANGED <<hdr, cmds, file, page_offsets, rhdr, rtrailer, rpage, rcmds>>
    /\ UNCHANGED <<layoutVars, restVars>>

\* read::trailer where seek_trailer left the stream
trailer ==
    /\ pc = "r_seek_trailer" /\ rerr = "Ok"
    /\ \E t \in {ReadTrailerAt(file, rpos)} :
       /\ rerr' = t.err
       /\ rpos' = t.pos
       /\ rtrailer' = IF t.err = "Ok" THEN t.val ELSE rtrailer
    /\ pc' = "r_trailer"
    /\ UNCHANGED <<hdr, cmds, file, page_offsets, rhdr, rpage, rcmds>>
    /\ UNCHANGED <<layoutVars, restVars>>

\* read::page(header, input) for a header of any number of styles
page ==
    /\ pc \in {"written", "input"}
    /\ \E h \in Headers : \E r \in {ReadPageAt(Len(h), file, 0)} :
       /\ rhdr' = h
       /\ rerr' = r.err
       /\ rcmds' = r.cmds
    /\ pc' = "r_page"
    /\ UNCHANGED <<hdr, cmds, file, page_offsets, rpos, rtrailer, rpage>>
    /\ UNCHANGED <<layoutVars, restVars>>

NextRead == Doc \/ header \/ seek_trailer \/ trailer \/ page

SpecRead == InitRead /\ [][NextRead]_vars

(***************************************************************************)
(* Properties of the readers.                                              *)
(***************************************************************************)
\* commands that neither end a page nor fail to decode under a header of n
\* styles, with encodings over ByteAlphabet
PlainCommands(n) ==
    {Nop, Show(<<97>>), Show(<<195, 128>>), Advance(0), Advance(1)}
    \cup {SetStyle(j) : j \in {i \in {0, 1} : i < n}}

\* the first i bytes of src are the encodings of plain commands
RECURSIVE PlainUpTo(_, _, _)
PlainUpTo(src, i, n) ==
    \/ i = 0
    \/ \E c \in PlainCommands(n) : \E e \in {EncodeCommand(c)} :
          /\ Len(e) <= i
          /\ SubSeq(src, i - Len(e) + 1, i) = e
          /\ PlainUpTo(src, i - Len(e), n)

\* src holds plain commands and then a SetStyle whose operand is a u16 that
\* names no style of a header of n styles
MeetsBadSetStyle(src, n) ==
    \E i \in 0..(Len(src) - 1) :
        /\ src[i + 1] = 131
        /\ PlainUpTo(src, i, n)
        /\ LebRead(src, i + 1).err = "Ok"
        /\ LebRead(src, i + 1).val <= U16Max
        /\ LebRead(src, i + 1).val >= n

\* C14: read::page returns InvalidStyleIndex when it meets a SetStyle whose
\* operand, a u16, is not below the number of styles of the header, and no
\* SetStyle it returns names a style outside the header.
C14_InvalidStyleIndex ==
    pc = "r_page" =>
        /\ MeetsBadSetStyle(file, Len(rhdr)) => rerr = "InvalidStyleIndex"
        /\ rerr = "InvalidStyleIndex" => rcmds = <<>>
        /\ \A k \in 1..Len(rcmds) : rcmds[k].op = "SetStyle" => rcmds[k].x < Len(rhdr)

C14_Witness ==
    /\ pc = "r_page" /\ rerr = "InvalidStyleIndex" /\ Len(rhdr) = 2
    /\ file[1] # 131 /\ MeetsBadSetStyle(file, Len(rhdr))

\* the file was written by write::doc
Written == page_offsets # <<>>

\* C15: a file write::doc wrote begins with 0E DF 01 00, and read::header
\* returns InvalidMagicNumber for an input whose first four bytes are not these,
\* and only for such an input.
C15_MagicNumber ==
    /\ Written => Len(file) >= 4 /\ SubBytes(file, 0, 4) = <<14, 223, 1, 0>>
    /\ pc = "r_header" /\ Len(file) >= 4 /\ SubBytes(file, 0, 4) # <<14, 223, 1, 0>>
          => rerr = "InvalidMagicNumber"
    /\ pc = "r_header" /\ rerr = "InvalidMagicNumber"
          => Len(file) >= 4 /\ SubBytes(file, 0, 4) # <<14, 223, 1, 0>>
    /\ pc = "r_header" /\ Written => rerr = "Ok" /\ rhdr = hdr

C15_Witness ==
    /\ pc = "r_header" /\ rerr = "InvalidMagicNumber"
    /\ SubBytes(file, 0, 3) = <<14, 223, 1>> /\ Len(file) = 5

\* the back_off field of the input: its final 4 bytes as an i32
InputBackOff == I32FromLe(SubBytes(file, Len(file) - 4, Len(file)))

\* C16: seek_trailer returns InvalidEncoding for an input whose final 4 bytes
\* hold a positive back_off, and leaves the stream at the end of the input.
C16_PositiveBackOffRejected ==
    pc = "r_seek_trailer" /\ Len(file) >= 4 /\ InputBackOff > 0
        => rerr = "InvalidEncoding" /\ rpos = Len(file)

\* commands with operands, with encodings over ByteAlphabet
OperandCommands ==
    {Advance(1), Advance(128), SetCursor(0, 1), SetStyle(0),
     SetAdjustmentRatio(F32Zero), SetLineMetrics(1, 0)}

\* src holds plain commands and then the opcode of a command and a part, not
\* the whole, of its operands
EndsInsideOperands(src, n) ==
    \E i \in 0..(Len(src) - 1) : \E c \in OperandCommands :
    \E k \in 1..(Len(EncodeCommand(c)) - 1) :
        /\ SubSeq(src, i + 1, Len(src)) = SubSeq(EncodeCommand(c), 1, k)
        /\ PlainUpTo(src, i, n)

\* C17: read::page returns InvalidEncoding for a page that ends inside the
\* operands of a command.
C17_TruncatedOperands ==
    pc = "r_page" /\ EndsInsideOperands(file, Len(rhdr)) => rerr = "InvalidEncoding"

\* runs of text that are not valid UTF-8: the first byte of a two-byte
\* character at the end of the input, or followed by a byte that continues none
BadRuns == {<<195>>, <<97, 195>>, <<195, 97>>, <<195, 195, 128>>}

\* src holds plain commands and then, to its end, a run of text that is not
\* valid UTF-8
EndsWithBadRun(src, n) ==
    \E i \in 0..(Len(src) - 1) : \E t \in BadRuns :
        /\ SubSeq(src, i + 1, Len(src)) = t /\ ~Utf8Valid(t)
        /\ PlainUpTo(src, i, n)

\* C18: read::page returns InvalidEncoding for a page whose text is not valid
\* UTF-8, a character cut off by the end of the input included.
C18_InvalidUtf8 ==
    pc = "r_page" /\ EndsWithBadRun(file, Len(rhdr)) => rerr = "InvalidEncoding"

\* the document of one style and no command
EmptyDocument == Len(hdr) = 1 /\ cmds = <<>>

\* C19 as claimed: the file of a header of one style and an empty command list
\* has a trailer of one page, and read::page on that page yields no command.
C19_EmptyDocumentAsClaimed ==
    EmptyDocument /\ pc \in {"done", "failed"} =>
        pc = "done" /\ Len(rtrailer) = 1 /\ rcmds = <<>>

\* C19 amended: the file of a header of one style and an empty command list is
\* the header, the End opcode and a trailer of one page, the offset of that End;
\* read::page on that page yields one command, the End that terminates it.
C19_EmptyDocument ==
    EmptyDocument =>
        /\ pc # "failed"
        /\ pc # "start" =>
              /\ file = EncodeHeader(hdr) \o <<191>> \o EncodeTrailer(page_offsets)
              /\ page_offsets = <<Len(EncodeHeader(hdr))>>
        /\ pc \in {"pages", "done"} => rhdr = hdr /\ rtrailer = page_offsets
        /\ pc = "done" => rcmds = <<End>>

C19_Witness == EmptyDocument /\ pc = "done" /\ rpage = 1

\* the items are words separated by single whitespace glues
WordsAndSpaces(its) ==
    /\ Len(its) >= 3 /\ Len(its) % 2 = 1
    /\ \A i \in 1..Len(its) :
          IF i % 2 = 1 THEN its[i].kind = "Box" /\ its[i].data = "Word"
          ELSE its[i].kind = "Glue" /\ its[i].data = "Finite"

\* the words of such items, a space for each glue
RECURSIVE WordsText(_)
WordsText(its) ==
    IF its = <<>> THEN <<>>
    ELSE (IF its[1].kind = "Glue" THEN <<32>> ELSE its[1].text) \o WordsText(Tail(its))

\* finish() lays out, as one line, a paragraph of words in the default style
OneLineOfWords ==
    /\ mode = "paragraph" /\ mode' = "doc"
    /\ style_id = 0 /\ WordsAndSpaces(items)
    /\ last_par'.lines = 1

\* the line at the cursor fits the page
LineFitsPage == bbox_h - cursor_y >= line_height

\* C20 as claimed: a paragraph of words in the default style that is laid out
\* as one line, on a page with room for it, emits SetLineMetrics,
\* SetAdjustmentRatio, one Show of the words separated by single spaces, and
\* LineBreak.
C20_OneLineAsClaimed ==
    [][OneLineOfWords /\ LineFitsPage =>
          \E r \in AdjustmentRatios :
             commands' = commands \o <<SetLineMetrics(line_height, baseline),
                                       SetAdjustmentRatio(r), Show(WordsText(items)),
                                       LineBreak>>]_vars

\* C20 amended: such a paragraph emits SetAdjustmentRatio and one Show of the
\* words separated by single spaces and followed by one space, with no
\* SetLineMetrics before them; then LineBreak when the line fits the page, and
\* the commands of a page break when it does not.
C20_OneLine ==
    [][OneLineOfWords =>
          \E r \in AdjustmentRatios :
             commands' = commands
                         \o <<SetAdjustmentRatio(r), Show(Append(WordsText(items), 32))>>
                         \o (IF LineFitsPage
                             THEN <<LineBreak>>
                             ELSE <<PageBreak, SetStyle(0),
                                    SetLineMetrics(line_height, baseline)>>)]_vars

C20_Witness ==
    /\ mode = "doc" /\ style_id = 0 /\ last_par.lines = 1
    /\ LastPar = <<SetAdjustmentRatio(F32Zero), Show(<<97, 98, 32, 97, 98, 32>>),
                   LineBreak>>

(***************************************************************************)
(* display/page.rs: the replay of one page.  The f32 locals glue_width,    *)
(* whitespace_width and error are kept in 36ths of a pixel, so that        *)
(* em_px/3, its half, its third and their products with the adjustment     *)
(* ratios of the inputs are whole numbers.  F32Huge stands for every f32   *)
(* above the range of i32, infinity included.                              *)
(***************************************************************************)
SubPixels == 36

F32Huge == Pow2(30)

I32Max == Pow2(30) - 1 + Pow2(30)
I32Min == -Pow2(30) - Pow2(30)

\* a + b in i32, wrapping
WrappingAdd(a, b) ==
    IF b > 0 /\ a > I32Max - b THEN (a - (I32Max - b) - 1) + I32Min
    ELSE IF b < 0 /\ a < I32Min - b THEN (a - (I32Min - b) + 1) + I32Max
    ELSE a + b

\* f32::to_int_unchecked::<i32>: truncation toward zero of a value in the range
\* of i32; undefined for the others, where a build returns the "indefinite"
\* i32::MIN or saturates
ToIntUnchecked(x, build) ==
    IF x = F32Huge THEN (IF build = "indefinite" THEN I32Min ELSE I32Max)
    ELSE IF x >= 0 THEN x \div SubPixels
    ELSE -((-x) \div SubPixels)

\* x * r for a ratio r of mantissa 0, a power of two: 1/2 to 16 exactly, and
\* F32Huge from 2^34 on, where the product of every glue and r exceeds i32
TimesRatio(x, r) ==
    IF r.exp >= 161 THEN F32Huge
    ELSE IF r.exp >= 127 THEN x * Pow2(r.exp - 127)
    ELSE x \div Pow2(127 - r.exp)

\* the SetAdjustmentRatio arm: glue_stretch is glue_width / 2, glue_shrink is
\* glue_width / 3; a NaN is neither below nor above 0
WhitespaceWidthFor(glue_width, r) ==
    IF r.exp = 255 /\ r.mant # 0 THEN glue_width
    ELSE IF r.exp = 0 /\ r.mant = 0 THEN glue_width
    ELSE IF r.sign = 1
    THEN (IF r.exp >= 161 THEN -F32Huge
          ELSE glue_width - TimesRatio(glue_width \div 3, r))
    ELSE (IF r.exp >= 161 THEN F32Huge
          ELSE glue_width + TimesRatio(glue_width \div 2, r))

\* the style SetStyle resolves
ResolveStyle(d, s) ==
    IF FontsGetStyle(d.header[s + 1]).found THEN FontsGetStyle(d.header[s + 1])
    ELSE d.default_style

\* a baseline offset that is not kept at zero or above
BaselineOffsetSigned(fs, line_baseline) == line_baseline - fs.baseline

BaselineOffset(fs, line_baseline) ==
    IF fs.baseline < line_baseline THEN line_baseline - fs.baseline ELSE 0

\* the state at the start of display::page
DisplayStart(origin, debug, default_style, hd, pg) ==
    [origin |-> origin, debug |-> debug, default_style |-> default_style,
     header |-> hd, page |-> pg, i |-> 0, returned |-> "no",
     style |-> default_style,
     glue_width |-> (SubPixels * default_style.em_px) \div 3,
     line_height |-> default_style.line_height,
     line_baseline |-> default_style.baseline,
     baseline_offset |-> 0,
     cursor |-> origin,
     whitespace_width |-> 0, whitespace_width_quantized |-> 0,
     error |-> 0, drawn |-> <<>>]

\* one character of a Show: t is the text cursor, the error and the glyphs
\* drawn; a glyph that fails to draw leaves the text cursor where it is
ShowChar(d, t, c, build, draw_ok) ==
    IF IsWhitespaceByte(c)
    THEN Bind(IF d.whitespace_width = F32Huge \/ t.error = F32Huge THEN F32Huge
              ELSE IF d.whitespace_width = -F32Huge THEN -F32Huge
              ELSE t.error + d.whitespace_width
                       - SubPixels * d.whitespace_width_quantized,
              LAMBDA e :
                 Bind(WrappingAdd(t.x, d.whitespace_width_quantized), LAMBDA next_x :
                    IF e >= SubPixels
                    THEN Bind(ToIntUnchecked(e, build), LAMBDA error_px :
                            [t EXCEPT !.x = WrappingAdd(next_x, error_px),
                                      !.error = IF e = F32Huge THEN F32Huge
                                                ELSE e - SubPixels * error_px])
                    ELSE [t EXCEPT !.x = next_x, !.error = e]))
    ELSE IF draw_ok
    THEN [t EXCEPT !.x = WrappingAdd(t.x, d.style.advance),
                   !.drawn = Append(@, [c |-> c, x |-> t.x, y |-> t.y])]
    ELSE t

\* the loop over the characters of a Show, from the k-th on
RECURSIVE ShowChars(_, _, _, _, _, _)
ShowChars(d, t, str, k, build, draw_ok) ==
    IF k > Len(str) THEN t
    ELSE ShowChars(d, ShowChar(d, t, str[k], build, draw_ok), str, k + 1, build, draw_ok)

\* the Show arm
ShowArm(d, str, build, draw_ok) ==
    Bind(ShowChars(d, [x |-> d.cursor.x,
                       y |-> d.cursor.y + d.line_height - d.line_baseline
                                 - d.baseline_offset,
                       error |-> d.error, drawn |-> d.drawn],
                   str, 1, build, draw_ok),
         LAMBDA t : [d EXCEPT !.cursor = [x |-> t.x, y |-> d.cursor.y],
                              !.error = t.error, !.drawn = t.drawn])

\* the match on one command of the page
CommandArm(d, command, build, draw_ok) ==
    IF command.op = "LineBreak"
    THEN [d EXCEPT !.error = 0,
                   !.cursor = [x |-> d.origin.x, y |-> d.cursor.y + d.line_height]]
    ELSE IF command.op = "PageBreak" THEN [d EXCEPT !.returned = "returned"]
    ELSE IF command.op = "Advance"
    THEN [d EXCEPT !.cursor = [x |-> WrappingAdd(d.cursor.x, command.x), y |-> d.cursor.y]]
    ELSE IF command.op = "SetCursor"
    THEN [d EXCEPT !.cursor = [x |-> command.x, y |-> command.y]]
    ELSE IF command.op = "SetAdjustmentRatio"
    THEN Bind(WhitespaceWidthFor(d.glue_width, command.r), LAMBDA w :
            [d EXCEPT !.whitespace_width = w,
                      !.whitespace_width_quantized =
                          IF w = -F32Huge THEN -ToIntUnchecked(F32Huge, build) - 1
                          ELSE ToIntUnchecked(w, build)])
    ELSE IF command.op = "SetLineMetrics"
    THEN [d EXCEPT !.line_height = command.x, !.line_baseline = command.y,
                   !.baseline_offset = BaselineOffset(d.style, command.y)]
    ELSE IF command.op = "Show" THEN ShowArm(d, command.str, build, draw_ok)
    ELSE IF command.op = "SetStyle"
    THEN (IF command.x >= Len(d.header) THEN [d EXCEPT !.returned = "panicked"]
          ELSE Bind(ResolveStyle(d, command.x), LAMBDA fs :
                  [d EXCEPT !.style = fs,
                            !.glue_width = (SubPixels * fs.em_px) \div 3,
                            !.baseline_offset = BaselineOffset(fs, d.line_baseline)]))
    ELSE d

\* one turn of the loop of display::page: the debug triangle at the cursor,
\* then the match; the function returns after the last command of the slice
PageTurn(d, build, draw_ok) ==
    Bind(CommandArm(IF d.debug
                    THEN [d EXCEPT !.drawn = Append(@, [c |-> 0, x |-> d.cursor.x,
                                                        y |-> d.cursor.y])]
                    ELSE d,
                    d.page[d.i + 1], build, draw_ok), LAMBDA n :
        [n EXCEPT !.i = d.i + 1,
                  !.returned = IF n.returned = "no" /\ d.i + 1 = Len(d.page)
                               THEN "returned" ELSE n.returned])

MaxPage == 3

\* the commands of the pages replayed: ratios 1/2, -1, -4 and 2^127
DisplayCommands ==
    {LineBreak, PageBreak, End, Advance(5), SetStyle(1), SetLineMetrics(6, 3),
     Show(<<97, 32, 32>>),
     SetAdjustmentRatio(F32(0, 126, 0)), SetAdjustmentRatio(F32(1, 127, 0)),
     SetAdjustmentRatio(F32(1, 129, 0)), SetAdjustmentRatio(F32(0, 254, 0))}

InitDisplay ==
    /\ CodecIdle /\ LayoutIdle /\ CacheIdle /\ LebIdle /\ MarkdownIdle /\ DiffusionIdle
    /\ \E pg \in SeqsUpTo(DisplayCommands, MaxPage) \ {<<>>} : \E debug \in BOOLEAN :
          display = DisplayStart([x |-> 0, y |-> 0], debug, DefaultStyle,
                                 <<Style(FontR, 4), Style(FontB, 6)>>, pg)

\* the body of the loop of display::page, under a build and a draw target
page_turn ==
    /\ display # <<>> /\ display.returned = "no"
    /\ \E build \in {"indefinite", "saturating"} : \E draw_ok \in BOOLEAN :
          display' = PageTurn(display, build, draw_ok)
    /\ UNCHANGED <<codecVars, layoutVars, cacheVars, lebVars, markdownVars, diffusionVars>>

NextDisplay == page_turn

SpecDisplay == InitDisplay /\ [][NextDisplay]_vars

\* the commands interpreted so far
Replayed == SubSeq(display.page, 1, display.i)

\* r >= -1
AtLeastMinusOne(r) == r.sign = 0 \/ r.exp < 127 \/ (r.exp = 127 /\ r.mant = 0)

\* C21: while the adjustment ratios replayed are -1 or more, the running error
\* is below one pixel in absolute value after each whitespace character (no
\* other character and no command but LineBreak, which resets it, changes the
\* error, and every Show replayed ends with a whitespace character).
C21_ErrorBelowOnePixel ==
    display # <<>>
    /\ (\A k \in 1..display.i :
           Replayed[k].op = "SetAdjustmentRatio" => AtLeastMinusOne(Replayed[k].r))
        => display.error > -SubPixels /\ display.error < SubPixels

\* C26: display::page stops at the first PageBreak or End of its slice: once
\* one has been interpreted no turn of the loop changes the cursor, the style,
\* the line metrics or what is drawn.
C26_StopsAtPageBreakOrEnd ==
    [][(\E k \in 1..display.i : Replayed[k].op \in {"PageBreak", "End"})
          => /\ display'.cursor = display.cursor
             /\ display'.style = display.style
             /\ display'.line_height = display.line_height
             /\ display'.line_baseline = display.line_baseline
             /\ display'.drawn = display.drawn]_vars

(***************************************************************************)
(* font_db.rs: the glyph cache.  LruCache is the cache of the lru crate:   *)
(* get_or_insert_mut makes the key it is given the most recently used one  *)
(* and, when the key is new and the cache is full, drops the least         *)
(* recently used one.                                                      *)
(***************************************************************************)
\* get_or_insert_mut that leaves the place of a key it finds
GetOrInsertMutNoPromote(cache, cap, key) ==
    IF key \in Range(cache) THEN cache
    ELSE IF Len(cache) = cap THEN <<key>> \o SubSeq(cache, 1, cap - 1)
    ELSE <<key>> \o cache

\* LruCache::get_or_insert_mut(key, ..) on a cache of capacity cap
GetOrInsertMut(cache, cap, key) ==
    IF key \in Range(cache) THEN <<key>> \o SelectSeq(cache, LAMBDA k : k # key)
    ELSE IF Len(cache) = cap THEN <<key>> \o SubSeq(cache, 1, cap - 1)
    ELSE <<key>> \o cache

GlyphCacheKey(font_id, size_px, code_point) ==
    [font_id |-> font_id, size_px |-> size_px, code_point |-> code_point]

MaxCapacity == 2
MaxLookups == 4

\* Fonts::new(glyph_cache_size), a NonZeroUsize
InitCache ==
    /\ CodecIdle /\ LayoutIdle /\ DisplayIdle /\ LebIdle /\ MarkdownIdle /\ DiffusionIdle
    /\ fonts = {} /\ glyph_cache = <<>> /\ lookups = <<>>
    /\ glyph_cache_size \in 1..MaxCapacity

\* HashMap::insert(name, font): the entry of the name is replaced
HashMapInsert(map, name, font) == {f \in map : f.name # name} \cup {font}

\* the names fonts are added under
FontNames == {"a", "b", "c"}

\* Fonts::add(name, data); parsed tells whether Face::parse took the data
add ==
    /\ glyph_cache_size > 0
    /\ \E name \in FontNames, parsed \in BOOLEAN :
       \E id \in {Cardinality(fonts)} :
          fonts' = IF parsed THEN HashMapInsert(fonts, name, [id |-> id, name |-> name])
                   ELSE fonts
    /\ UNCHANGED <<glyph_cache, glyph_cache_size, lookups, codecVars, layoutVars,
                   displayVars, lebVars, markdownVars, diffusionVars>>

\* Fonts::glyph(style, code_point)
glyph ==
    /\ glyph_cache_size > 0 /\ Len(lookups) < MaxLookups
    /\ \E font_id \in {0, 1}, code_point \in {97, 98} :
       \E key \in {GlyphCacheKey(font_id, 4, code_point)} :
          /\ glyph_cache' = GetOrInsertMut(glyph_cache, glyph_cache_size, key)
          /\ lookups' = Append(lookups, key)
    /\ UNCHANGED <<fonts, glyph_cache_size, codecVars, layoutVars, displayVars, lebVars,
                   markdownVars, diffusionVars>>

NextCache == add \/ glyph

SpecCache == InitCache /\ [][NextCache]_vars

\* the place in lookups of the last lookup of key k
LastAccess(k) == Max({i \in 1..Len(lookups) : lookups[i] = k})

\* C22: the glyph cache never holds more entries than its capacity, which
\* never changes; a lookup of a key the full cache does not hold evicts the
\* entry whose last lookup, hit or miss, is the oldest, and no other lookup
\* evicts anything.
C22_GlyphCacheLru ==
    /\ [](Len(glyph_cache) <= glyph_cache_size)
    /\ [][/\ glyph_cache_size' = glyph_cache_size
          /\ lookups' # lookups =>
                IF lookups'[Len(lookups')] \notin Range(glyph_cache)
                   /\ Len(glyph_cache) = glyph_cache_size
                THEN \E ev \in Range(glyph_cache) :
                        /\ Range(glyph_cache')
                             = (Range(glyph_cache) \ {ev}) \cup {lookups'[Len(lookups')]}
                        /\ \A o \in Range(glyph_cache) : LastAccess(ev) <= LastAccess(o)
                ELSE Range(glyph_cache')
                         = Range(glyph_cache) \cup {lookups'[Len(lookups')]}]_vars

\* the key looked up twice outlives the key inserted after it
C22_Witness ==
    /\ glyph_cache_size = 2 /\ Len(lookups) = 4
    /\ lookups[1] = lookups[3] /\ lookups[2] # lookups[1]
    /\ lookups[4] \notin {lookups[1], lookups[2]}
    /\ Range(glyph_cache) = {lookups[1], lookups[4]}

\* C39: the fonts of the store have pairwise distinct ids after any sequence
\* of Fonts::add calls, a name added again included, so that the glyph cache
\* keys of two fonts never coincide.
C39_DistinctFontIds ==
    \A f, g \in fonts :
        f # g => /\ f.id # g.id
                 /\ \A code_point \in {97, 98} :
                       GlyphCacheKey(f.id, 4, code_point) # GlyphCacheKey(g.id, 4, code_point)

(***************************************************************************)
(* leb128.rs on the whole of u64.  A u64 is the set of the positions 0..63 *)
(* of its 1 bits, so that values of 2^31 and more can be written and read. *)
(***************************************************************************)
\* the number whose 1 bits are at the positions of S
RECURSIVE BitsValue(_)
BitsValue(S) ==
    IF S = {} THEN 0
    ELSE Bind(CHOOSE b \in S : TRUE, LAMBDA b : Pow2(b) + BitsValue(S \ {b}))

\* low_bits_of_u64(val), a number 0..127
LowBitsOfU64(val) == BitsValue(val \cap (0..6))

\* val >> 7
ShiftRight7(val) == {b - 7 : b \in {x \in val : x >= 7}}

\* (low_bits as u64) << shift
ShiftLeft(low_bits, shift) ==
    {b + shift : b \in {i \in 0..6 : (low_bits \div Pow2(i)) % 2 = 1 /\ i + shift <= 63}}

\* write::unsigned without the continuation bit
RECURSIVE WriteUnsignedNoContinuation(_)
WriteUnsignedNoContinuation(val) ==
    IF ShiftRight7(val) # {}
    THEN <<LowBitsOfU64(val)>> \o WriteUnsignedNoContinuation(ShiftRight7(val))
    ELSE <<LowBitsOfU64(val)>>

\* write::unsigned(w, val): the bytes written; it returns their number
RECURSIVE WriteUnsigned(_)
WriteUnsigned(val) ==
    IF ShiftRight7(val) # {}
    THEN <<LowBitsOfU64(val) + 128>> \o WriteUnsigned(ShiftRight7(val))
    ELSE <<LowBitsOfU64(val)>>

\* the loop of read::unsigned from the byte at offset pos
RECURSIVE ReadUnsignedFrom(_, _, _, _)
ReadUnsignedFrom(src, pos, result, shift) ==
    IF pos >= Len(src)
    THEN [err |-> "IoError", val |-> {}, pos |-> Len(src)]
    ELSE IF shift = 63 /\ src[pos + 1] # 0 /\ src[pos + 1] # 1
    THEN [LebSkip(src, pos + 1) EXCEPT !.val = {}]
    ELSE IF src[pos + 1] < 128
    THEN [err |-> "Ok", val |-> result \cup ShiftLeft(src[pos + 1] % 128, shift),
          pos |-> pos + 1]
    ELSE ReadUnsignedFrom(src, pos + 1,
                          result \cup ShiftLeft(src[pos + 1] % 128, shift), shift + 7)

\* read::unsigned(r) on a stream at offset 0
ReadUnsigned(src) == ReadUnsignedFrom(src, 0, {}, 0)

MaxTail == 2

\* the u64 values written: bits at the ends of the first, second, ninth and
\* tenth group
U64Values == SUBSET {0, 6, 7, 13, 56, 62, 63}

\* the streams read: nine bytes with the continuation bit, then any bytes
LebStreams ==
    {[i \in 1..9 |-> p] \o t :
        p \in {128, 255}, t \in SeqsUpTo({0, 1, 2, 127, 128, 129}, MaxTail)}

InitLeb ==
    /\ CodecIdle /\ LayoutIdle /\ DisplayIdle /\ CacheIdle /\ MarkdownIdle /\ DiffusionIdle
    /\ \/ leb_pc = "val" /\ leb_val \in U64Values /\ leb_stream = <<>>
       \/ leb_pc = "input" /\ leb_val = {} /\ leb_stream \in LebStreams
    /\ leb_written = 0 /\ leb_result = <<>>

\* write::unsigned(w, val) on an empty stream that other bytes follow
unsigned_write ==
    /\ leb_pc = "val"
    /\ \E t \in {<<>>, <<0>>, <<129, 1>>} : leb_stream' = WriteUnsigned(leb_val) \o t
    /\ leb_written' = Len(WriteUnsigned(leb_val))
    /\ leb_pc' = "written"
    /\ UNCHANGED <<leb_val, leb_result, codecVars, layoutVars, displayVars, cacheVars,
                   markdownVars, diffusionVars>>

\* read::unsigned(r) at the start of the stream
unsigned_read ==
    /\ leb_pc \in {"written", "input"}
    /\ leb_result' = ReadUnsigned(leb_stream)
    /\ leb_pc' = IF leb_pc = "written" THEN "read" ELSE "read_input"
    /\ UNCHANGED <<leb_val, leb_stream, leb_written, codecVars, layoutVars,
                   displayVars, cacheVars, markdownVars, diffusionVars>>

NextLeb == unsigned_write \/ unsigned_read

SpecLeb == InitLeb /\ [][NextLeb]_vars

\* C23: write::unsigned writes 7-bit groups, the low group first, each byte but
\* the last with the high bit set; it returns the number of bytes written; and
\* read::unsigned on these bytes returns the value and consumes them, and no
\* byte that follows them.
C23_LebRoundTrip ==
    /\ leb_pc \in {"written", "read"} =>
          /\ leb_written >= 1 /\ leb_written <= Len(leb_stream)
          /\ \A i \in 1..leb_written :
                /\ (leb_stream[i] >= 128) = (i < leb_written)
                /\ ShiftLeft(leb_stream[i] % 128, 7 * (i - 1))
                     = leb_val \cap ((7 * (i - 1))..(7 * (i - 1) + 6))
          /\ \A b \in leb_val : b < 7 * leb_written
    /\ leb_pc = "read" =>
          /\ leb_result.err = "Ok"
          /\ leb_result.val = leb_val
          /\ leb_result.pos = leb_written

\* 2^63 + 1 written as ten bytes, read back with bytes after it left unread
C23_Witness ==
    /\ leb_pc = "read" /\ {0, 63} \subseteq leb_val /\ leb_written = 10
    /\ Len(leb_stream) = 12 /\ leb_result.pos = 10 /\ leb_result.val = leb_val

\* the bytes of the first value of the stream: up to the first byte without the
\* continuation bit (0 if there is none)
ValueEnd(src) ==
    IF \A i \in 1..Len(src) : src[i] >= 128 THEN 0
    ELSE CHOOSE n \in 1..Len(src) : src[n] < 128 /\ \A i \in 1..(n - 1) : src[i] >= 128

\* the value of the encoding src[1..n] has a 1 bit at position 64 or above
ExceedsU64(src, n) ==
    n >= 10 /\ (src[10] % 128 >= 2 \/ \E i \in 11..n : src[i] % 128 # 0)

\* C24: read::unsigned returns Overflow for every encoding of a value that
\* does not fit in 64 bits, and whenever it returns Overflow the stream is
\* left after the first byte without the continuation bit.
C24_LebOverflow ==
    leb_pc = "read_input" =>
        /\ ValueEnd(leb_stream) > 0 /\ ExceedsU64(leb_stream, ValueEnd(leb_stream))
              => leb_result.err = "Overflow"
        /\ leb_result.err = "Overflow" => leb_result.pos = ValueEnd(leb_stream)

\* an overflow met at the tenth byte, the value ending at the eleventh
C24_Witness ==
    /\ leb_pc = "read_input" /\ leb_result.err = "Overflow"
    /\ ValueEnd(leb_stream) = 11 /\ leb_stream[11] # 0 /\ leb_result.pos = 11

\* read::page(header, input) has returned, with commands or an error
PageReturned == pc = "r_page" /\ rerr # "hang"

\* C27: read::page terminates on every finite byte slice: every step of its
\* scan consumes a byte of the input or stops with a result or an error.
C27_PageTerminates == pc = "r_page" => PageReturned

(***************************************************************************)
(* Properties of ParagraphBuilder::finish and of the item buffer.          *)
(***************************************************************************)
IsIndent(it) == it.kind = "Box" /\ it.data = "Indent"

\* finish() returns the builder of a paragraph without items or with one
\* Indent only
FinishOfEmpty ==
    /\ mode = "paragraph" /\ mode' = "doc"
    /\ Len(items) = 0 \/ (Len(items) = 1 /\ IsIndent(items[1]))

\* C28: finish() on a paragraph whose item buffer is empty or holds a single
\* Indent emits no command and leaves the cursor, the number of pages and the
\* line metrics of the builder as they were.
C28_FinishOfEmpty ==
    [][FinishOfEmpty =>
          /\ commands' = commands
          /\ cursor_y' = cursor_y
          /\ pages' = pages
          /\ line_height' = line_height /\ baseline' = baseline]_vars

\* a paragraph without lines was finished after lines had been emitted
C28_Witness ==
    /\ mode = "doc" /\ last_par.lines = 0
    /\ last_par.start = Len(commands) /\ last_par.end = Len(commands)
    /\ Len(commands) > 0 /\ cursor_y > 0

\* C29: whatever operations are called on a ParagraphBuilder, an Indent box
\* is in its item buffer at the first position only.
C29_IndentOnlyFirst ==
    mode = "paragraph" => \A i \in 2..Len(items) : ~IsIndent(items[i])

\* the text of the items its[first..last-1], and the hyphen of a line broken at
\* a soft hyphen
RECURSIVE ItemsText(_, _, _)
ItemsText(its, first, last) ==
    IF first >= last THEN <<>>
    ELSE (IF its[first].kind = "Glue" THEN <<32>>
          ELSE IF its[first].kind = "Box" /\ its[first].data \notin {"SetStyle", "Indent"}
          THEN its[first].text
          ELSE <<>>) \o ItemsText(its, first + 1, last)

IsSoftHyphen(it) == it.kind = "Penalty" /\ it.data = "SoftHyphen"

\* the text of the Show commands c[from..to]
RECURSIVE ShownText(_, _, _)
ShownText(c, from, to) ==
    IF from > to THEN <<>>
    ELSE (IF c[from].op = "Show" THEN c[from].str ELSE <<>>) \o ShownText(c, from + 1, to)

\* the positions of the SetAdjustmentRatio commands of c after the first n
RatiosAfter(c, n) == Sorted({k \in (n + 1)..Len(c) : c[k].op = "SetAdjustmentRatio"})

\* c holds, after its first n commands, one line for every break of b, each
\* showing the text of its items, with a '-' after it exactly if the break is
\* a soft hyphen
LinesShow(c, n, its, b) ==
    Bind(RatiosAfter(c, n), LAMBDA at :
        /\ Len(at) = Len(b)
        /\ \A k \in 1..Len(b) :
              ShownText(c, at[k], IF k < Len(b) THEN at[k + 1] - 1 ELSE Len(c))
                = ItemsText(its, IF k = 1 THEN 1 ELSE b[k - 1] + 1, b[k])
                    \o (IF IsSoftHyphen(its[b[k]]) THEN <<45>> ELSE <<>>))

\* finish() lays out a paragraph
FinishOfItems ==
    /\ mode = "paragraph" /\ mode' = "doc"
    /\ Len(items) > 1 \/ (Len(items) = 1 /\ ~IsIndent(items[1]))

\* C30: the text of a line laid out by finish() is the text of its items,
\* followed by a '-' exactly when the item the line is broken at is a soft
\* hyphen: a soft hyphen that is no break, a hard hyphen and a forced break
\* add no character.
C30_SoftHyphen ==
    [][FinishOfItems =>
          \E S \in BreakSets(Terminated(items)) :
              LinesShow(commands', Len(commands), Terminated(items), Sorted(S))]_vars

\* "ab" was broken at its soft hyphen: "a-" on one line, "b " on the next
C30_Witness ==
    /\ mode = "doc" /\ last_par.lines = 2 /\ last_par.end = Len(commands)
    /\ \E k \in (last_par.start + 1)..(Len(commands) - 1) :
          /\ commands[k] = Show(<<97, 45>>)
          /\ \E j \in (k + 1)..Len(commands) : commands[j] = Show(<<98, 32>>)

(***************************************************************************)
(* layout/markdown.rs: build.  The builder of the LayoutContext is in the  *)
(* layout variables: mode is the variant of BuilderState.  An Option is a  *)
(* sequence of no or one element.  The events are those of an event list   *)
(* that is well nested: an Exit closes the latest Enter that is open.      *)
(***************************************************************************)
\* the LayoutContext and its builder as one record
MarkdownState ==
    [mode |-> mode, b |-> BuilderRec,
     p |-> [style |-> p_style, style_id |-> p_style_id,
            whitespace_width |-> p_whitespace_width, items |-> items],
     ctx |-> context]

\* a panic ends build
MarkdownPanic(st) == [st EXCEPT !.mode = "panicked", !.ctx.returned = "panicked"]

\* BuilderState::paragraph, then the call f on the paragraph builder
OnParagraph(st, f(_)) == IF st.mode = "paragraph" THEN f(st) ELSE MarkdownPanic(st)

\* BuilderState::map with a closure that takes a Doc to a Paragraph by
\* Builder::paragraph
DocToParagraph(st, doc) ==
    [st EXCEPT !.mode = "paragraph", !.b = doc,
               !.p = [style |-> doc.style, style_id |-> doc.style_id,
                      whitespace_width |-> doc.whitespace_width, items |-> <<>>]]

\* ParagraphBuilder::set_style on the paragraph of the context
ParagraphSetStyle(st, s) ==
    OnParagraph(st, LAMBDA t :
        Bind(GetStyle(t.b, s), LAMBDA g :
            IF g.id # t.p.style_id
            THEN [t EXCEPT !.b.styles = g.styles,
                           !.p = [style |-> g.style, style_id |-> g.id,
                                  whitespace_width |-> WhitespaceWidth(g.style),
                                  items |-> Append(t.p.items,
                                                   BoxSetStyle(g.id, g.style.line_height,
                                                               g.style.baseline))]]
            ELSE [t EXCEPT !.b.styles = g.styles]))

\* BuilderState::map with a closure that takes a Paragraph to a Doc by
\* ParagraphBuilder::finish and then does `after` on the builder
ParagraphToDoc(st, breaks, after(_)) ==
    IF st.mode # "paragraph" THEN MarkdownPanic(st)
    ELSE Bind(ParagraphBreak(st.b, bbox_h, st.p.items, breaks), LAMBDA res :
             IF res.panic THEN MarkdownPanic(st)
             ELSE [st EXCEPT !.mode = "doc",
                             !.b = after([res.b EXCEPT
                                             !.style = st.p.style,
                                             !.style_id = st.p.style_id,
                                             !.whitespace_width = st.p.whitespace_width]),
                             !.p = [style |-> <<>>, style_id |-> 0,
                                    whitespace_width |-> 0, items |-> <<>>]])

on_enter_heading(st) ==
    Bind([st EXCEPT !.ctx.in_paragraph = TRUE], LAMBDA t :
        IF t.mode # "doc" THEN MarkdownPanic(t)
        ELSE Bind(DocToParagraph(t, IF t.b.commands # <<>> THEN PageBreakOn(t.b) ELSE t.b),
                  LAMBDA u :
                     Bind(IF u.ctx.heading_level > 0 THEN u.ctx.heading_level - 1 ELSE 0,
                          LAMBDA level :
                             IF u.ctx.options.heading # <<>>
                                /\ level < Len(u.ctx.options.heading[1])
                             THEN ParagraphSetStyle(u, u.ctx.options.heading[1][level + 1])
                             ELSE u)))

on_exit_heading(st, breaks) ==
    ParagraphToDoc([st EXCEPT !.ctx.in_paragraph = FALSE], breaks,
                   LAMBDA doc : SetStyleOn(AdvanceLineOn(doc, bbox_h), st.ctx.options.regular))

on_enter_paragraph(st) ==
    Bind([st EXCEPT !.ctx.in_paragraph = TRUE], LAMBDA t :
        IF t.mode # "doc" THEN MarkdownPanic(t)
        ELSE Bind(DocToParagraph(t, t.b), LAMBDA u :
                 [u EXCEPT !.p.items = Append(@, BoxIndent(4 * u.p.whitespace_width))]))

on_exit_paragraph(st, breaks) ==
    ParagraphToDoc([st EXCEPT !.ctx.in_paragraph = FALSE], breaks, LAMBDA doc : doc)

\* the slice of the event is inp.str, split and hyphenated as inp.hyph
on_exit_data(st, inp) ==
    IF st.ctx.in_link_destination THEN st
    ELSE Bind(OnParagraph(st, LAMBDA t :
                  [t EXCEPT !.p.items =
                      TextItems(@, t.p.style, t.p.whitespace_width,
                                SplitWordBounds(inp.str, <<>>), inp.hyph, 1)]),
              LAMBDA u :
                 IF u.ctx.returned = "no" /\ u.ctx.heading_level = 1
                    /\ u.ctx.options.title = <<>>
                 THEN [u EXCEPT !.ctx.options.title = <<inp.str>>]
                 ELSE u)

\* the markers are the bytes of '#', 'x' and '&'; inp.char is the character
\* decode_numeric_char returns, inp.named what decode_named_char returns
on_exit_character_reference(st, inp) ==
    IF st.ctx.character_reference_marker \in {35, 120}
    THEN OnParagraph(st, LAMBDA t :
             [t EXCEPT !.p.items = CharItems(@, t.p.style, t.p.whitespace_width, inp.char)])
    ELSE IF st.ctx.character_reference_marker = 38
    THEN (IF inp.named = <<>> THEN st
          ELSE OnParagraph(st, LAMBDA t :
                   [t EXCEPT !.p.items = WordItems(@, t.p.style, t.p.whitespace_width,
                                                   inp.named[1], <<>>)]))
    ELSE MarkdownPanic(st)

on_exit_hard_break(st) ==
    OnParagraph(st, LAMBDA t : [t EXCEPT !.p.items = HardLineBreakItems(@)])

on_exit_line_ending(st) ==
    IF st.ctx.in_paragraph
    THEN OnParagraph(st, LAMBDA t :
             [t EXCEPT !.p.items = WhitespaceItems(@, t.p.whitespace_width)])
    ELSE st

\* Handlers::enter for the event name inp.name
enter(st, inp) ==
    CASE inp.name = "HeadingSetext" -> [st EXCEPT !.ctx.heading_level = 0]
      [] inp.name \in {"HeadingAtxText", "HeadingSetextText"} -> on_enter_heading(st)
      [] inp.name = "Paragraph" -> on_enter_paragraph(st)
      [] inp.name = "CharacterReferenceMarker" ->
            [st EXCEPT !.ctx.character_reference_marker = 38]
      [] inp.name = "CharacterReferenceMarkerHexadecimal" ->
            [st EXCEPT !.ctx.character_reference_marker = 120]
      [] inp.name = "CharacterReferenceMarkerNumeric" ->
            [st EXCEPT !.ctx.character_reference_marker = 35]
      [] inp.name = "Emphasis" ->
            IF st.ctx.options.emphasis # <<>>
            THEN ParagraphSetStyle(st, st.ctx.options.emphasis[1]) ELSE st
      [] inp.name \in {"Reference", "Resource"} ->
            [st EXCEPT !.ctx.in_link_destination = TRUE]
      [] inp.name = "Strong" ->
            IF st.ctx.options.strong # <<>>
            THEN ParagraphSetStyle(st, st.ctx.options.strong[1]) ELSE st
      [] OTHER -> st

\* Handlers::exit for the event name inp.name
exit(st, inp) ==
    CASE inp.name = "HeadingAtxSequence" -> [st EXCEPT !.ctx.heading_level = inp.level]
      [] inp.name \in {"HeadingAtx", "HeadingSetext"} -> on_exit_heading(st, inp.breaks)
      [] inp.name = "Paragraph" -> on_exit_paragraph(st, inp.breaks)
      [] inp.name \in {"AutolinkEmail", "AutolinkProtocol", "CharacterEscapeValue", "Data"} ->
            on_exit_data(st, inp)
      [] inp.name = "CharacterReferenceValue" -> on_exit_character_reference(st, inp)
      [] inp.name \in {"Emphasis", "Strong"} -> ParagraphSetStyle(st, st.ctx.options.regular)
      [] inp.name \in {"HardBreakEscape", "HardBreakTrailing"} -> on_exit_hard_break(st)
      [] inp.name \in {"Reference", "Resource"} ->
            [st EXCEPT !.ctx.in_link_destination = FALSE]
      [] inp.name = "LineEnding" -> on_exit_line_ending(st)
      [] OTHER -> st

\* build handles at most MaxEvents events, with at most MaxOpen of them open
MaxEvents == 6
MaxOpen == 3

\* the event names of the inputs; BlockQuote stands for the names without a rule
EventNames ==
    {"HeadingAtx", "HeadingAtxSequence", "HeadingAtxText", "Paragraph", "Emphasis",
     "Strong", "Resource", "Data", "CharacterReferenceMarkerNumeric",
     "CharacterReferenceValue", "HardBreakEscape", "LineEnding", "BlockQuote"}

\* the Options handed to build: Options::new(regular), and one with every style
OptionsPool ==
    {[regular |-> Style(FontR, 4), emphasis |-> <<>>, strong |-> <<>>, heading |-> <<>>,
      title |-> <<>>],
     [regular |-> Style(FontR, 4), emphasis |-> <<Style(FontB, 4)>>,
      strong |-> <<Style(FontR, 8)>>, heading |-> <<<<Style(FontB, 8)>>>>,
      title |-> <<>>]}

\* what the event at the index needs besides its name: the slice of a text
\* event and what the hyphenator makes of it, the length of an ATX sequence,
\* the lines the line breaker returns for the paragraph that is finished
EventInputs(kind, name) ==
    {[kind |-> kind, name |-> name, level |-> l, breaks |-> br, str |-> s,
      hyph |-> h, char |-> <<99>>, named |-> <<>>] :
        l \in (IF kind = "Exit" /\ name = "HeadingAtxSequence" THEN {1, 2} ELSE {0}),
        br \in (IF kind = "Exit" /\ name \in {"HeadingAtx", "Paragraph"}
                   /\ mode = "paragraph"
                THEN Lines(items) ELSE {<<>>}),
        s \in (IF kind = "Exit" /\ name = "Data" THEN {<<97, 98>>} ELSE {<<>>}),
        h \in (IF kind = "Exit" /\ name = "Data"
               THEN {<<b>> : b \in Hyphenations(<<97, 98>>)} ELSE {<<>>})}

\* LayoutContext::new after Builder::new, the font of the regular style found
InitMarkdown ==
    /\ CodecIdle /\ DisplayIdle /\ CacheIdle /\ LebIdle /\ DiffusionIdle
    /\ mode = "doc"
    /\ bbox_h \in Heights
    /\ style = BuilderNew.style /\ style_id = BuilderNew.style_id
    /\ line_height = BuilderNew.line_height /\ baseline = BuilderNew.baseline
    /\ whitespace_width = BuilderNew.whitespace_width
    /\ cursor_y = BuilderNew.cursor_y /\ styles = BuilderNew.styles
    /\ commands = BuilderNew.commands /\ pages = BuilderNew.pages
    /\ NoParagraph
    /\ last_par = [start |-> 0, end |-> 0, lines |-> 0]
    /\ \E options \in OptionsPool :
          context = [options |-> options, heading_level |-> 0,
                     character_reference_marker |-> 0, index |-> 0,
                     in_paragraph |-> FALSE, in_link_destination |-> FALSE,
                     open |-> <<>>, entered |-> <<>>, returned |-> "no"]

SetMarkdownState(st) ==
    /\ mode' = st.mode
    /\ SetBuilder(st.b)
    /\ p_style' = st.p.style /\ p_style_id' = st.p.style_id
    /\ p_whitespace_width' = st.p.whitespace_width /\ items' = st.p.items
    /\ context' = st.ctx

\* one turn of the loop of build: Handlers::handle on the next event, an Enter
\* of any name or the Exit of the name that is open
handle ==
    /\ context # <<>> /\ context.returned = "no" /\ context.index < MaxEvents
    /\ \/ \E name \in EventNames : \E inp \in EventInputs("Enter", name) :
             /\ Len(context.open) < MaxOpen
             /\ SetMarkdownState(
                    Bind(enter(MarkdownState, inp), LAMBDA st :
                        [st EXCEPT !.ctx.index = @ + 1,
                                   !.ctx.open = <<name>> \o context.open,
                                   !.ctx.entered = <<p_style_id>> \o context.entered]))
       \/ /\ context.open # <<>>
          /\ \E inp \in EventInputs("Exit", Head(context.open)) :
                SetMarkdownState(
                    Bind(exit(MarkdownState, inp), LAMBDA st :
                        [st EXCEPT !.ctx.index = @ + 1,
                                   !.ctx.open = Tail(context.open),
                                   !.ctx.entered = Tail(context.entered)]))
    /\ UNCHANGED <<bbox_h, last_par>>
    /\ UNCHANGED <<codecVars, displayVars, cacheVars, lebVars, diffusionVars>>

\* the end of build after the last event: the paragraph that is open is
\* finished, Builder::finish hands out the styles and the commands
build ==
    /\ context # <<>> /\ context.returned = "no" /\ context.open = <<>>
    /\ \E breaks \in (IF mode = "paragraph" THEN Lines(items) ELSE {<<>>}) :
          SetMarkdownState(
              Bind(IF mode = "paragraph"
                   THEN ParagraphToDoc(MarkdownState, breaks, LAMBDA doc : doc)
                   ELSE MarkdownState,
                   LAMBDA st :
                      IF st.ctx.returned = "no" THEN [st EXCEPT !.ctx.returned = "Ok"]
                      ELSE st))
    /\ UNCHANGED <<bbox_h, last_par>>
    /\ UNCHANGED <<codecVars, displayVars, cacheVars, lebVars, diffusionVars>>

NextMarkdown == handle \/ build

SpecMarkdown == InitMarkdown /\ [][NextMarkdown]_vars

\* C25: build ends with Ok on every well-nested event list when the font of
\* the regular style exists: no event aborts it, whether the builder is a
\* document or a paragraph when the event comes.
C25_BuildNeverAborts == context.returned # "panicked"

\* build handles the Exit of the event name that is open, without a panic
ExitOf(names) ==
    /\ context # <<>> /\ context.returned = "no" /\ context.open # <<>>
    /\ Head(context.open) \in names
    /\ context'.returned = "no" /\ context'.index = context.index + 1
    /\ Len(context'.open) < Len(context.open)

\* C31: the Exit of Emphasis or Strong gives the paragraph the style it had
\* before the matching Enter, however Emphasis and Strong are nested, in a
\* heading as in a paragraph.
C31_StyleRestored ==
    [][ExitOf({"Emphasis", "Strong"}) => p_style_id' = Head(context.entered)]_vars

\* a Reference or a Resource is open
InLinkDestination ==
    \E i \in 1..Len(context.open) : context.open[i] \in {"Reference", "Resource"}

\* C32: no event between the Enter and the Exit of a Reference or a Resource
\* adds an item to the paragraph: not Data, not a character escape value, not
\* a character reference.
C32_LinkDestinationDropped ==
    [][ExitOf({"Data", "CharacterEscapeValue", "CharacterReferenceValue"})
          /\ InLinkDestination => items' = items]_vars

(***************************************************************************)
(* Properties of the state display::page keeps between commands.           *)
(***************************************************************************)
\* C33: after every command display::page interprets, baseline_offset is
\* max(0, line_baseline - baseline of the current style), whether
\* SetLineMetrics or SetStyle changed it last.
C33_BaselineOffset ==
    display # <<>> =>
        display.baseline_offset =
            IF display.line_baseline > display.style.baseline
            THEN display.line_baseline - display.style.baseline ELSE 0

\* a SetStyle after a SetLineMetrics took the offset of the line back to zero
C33_Witness ==
    /\ display # <<>> /\ display.i >= 2
    /\ Replayed[display.i] = SetStyle(1)
    /\ \E k \in 1..(display.i - 1) : Replayed[k] = SetLineMetrics(6, 3)
    /\ display.style.baseline = 3 /\ display.line_baseline = 3
    /\ display.baseline_offset = 0

\* the place in the page of the latest of the commands replayed with the
\* given opcode, 0 if there is none
LatestOf(op) ==
    IF \E k \in 1..display.i : Replayed[k].op = op
    THEN CHOOSE k \in 1..display.i :
            Replayed[k].op = op /\ \A j \in (k + 1)..display.i : Replayed[j].op # op
    ELSE 0

\* the next command is a Show on a line whose adjustment ratio was set
ShowOnAdjustedLine ==
    /\ display # <<>> /\ display.returned = "no"
    /\ display.page[display.i + 1].op = "Show"
    /\ LatestOf("SetAdjustmentRatio") > LatestOf("LineBreak")

\* C34: at every Show the whitespace width in use is the one the style in
\* effect and the adjustment ratio of the line give: em_px/3, stretched by
\* half of it or shrunk by a third of it times the ratio, also when a
\* SetStyle was interpreted after the SetAdjustmentRatio of the line.
C34_WhitespaceOfCurrentStyle ==
    ShowOnAdjustedLine =>
        display.whitespace_width =
            WhitespaceWidthFor((SubPixels * display.style.em_px) \div 3,
                               Replayed[LatestOf("SetAdjustmentRatio")].r)

(***************************************************************************)
(* Properties of the commands and of the builder that finish() leaves.     *)
(***************************************************************************)
\* the text of a paragraph broken at b, from the k-th line on: the text of the
\* items in their order, without the items of the breaks, a '-' where a line
\* is broken at a soft hyphen
RECURSIVE ParagraphText(_, _, _)
ParagraphText(its, b, k) ==
    IF k > Len(b) THEN <<>>
    ELSE ItemsText(its, IF k = 1 THEN 1 ELSE b[k - 1] + 1, b[k])
            \o (IF IsSoftHyphen(its[b[k]]) THEN <<45>> ELSE <<>>)
            \o ParagraphText(its, b, k + 1)

\* C35: the Show commands of a paragraph hold every Word and Char item once,
\* in the order of the items, and a space for every glue, but for the glue or
\* penalty each line is broken at; nothing else but the '-' of a soft hyphen
\* break is shown.
C35_ContentKept ==
    [][FinishOfItems =>
          \E S \in BreakSets(Terminated(items)) :
              /\ Cardinality(S) = last_par'.lines
              /\ ShownText(commands', Len(commands) + 1, Len(commands'))
                   = ParagraphText(Terminated(items), Sorted(S), 1)]_vars

\* "a b" was broken at its glue: "a" on one line, "b " on the next
C35_Witness ==
    /\ mode = "doc" /\ last_par.lines = 2 /\ last_par.end = Len(commands)
    /\ \E k \in (last_par.start + 1)..(Len(commands) - 1) :
          /\ commands[k] = Show(<<97>>)
          /\ \E j \in (k + 1)..Len(commands) : commands[j] = Show(<<98, 32>>)
          /\ \A j \in (last_par.start + 1)..Len(commands) :
                commands[j].op = "Show" => j = k \/ commands[j] = Show(<<98, 32>>)

\* C36: when finish() returns, the line height and the baseline of the
\* builder are those of its style, the style of the paragraph, whatever the
\* paragraph holds, changes to taller or to lower styles included.
C36_LineMetricsOfStyle ==
    [][mode = "paragraph" /\ mode' = "doc"
          => line_height' = style'.line_height /\ baseline' = style'.baseline]_vars

(***************************************************************************)
(* The builder and display::page together: the commands of the page the    *)
(* builder is on, replayed from the first command of the page under the    *)
(* styles of the builder.                                                  *)
(***************************************************************************)
\* the commands after the last PageBreak emitted
CurrentPage ==
    IF \E k \in 1..Len(commands) : commands[k].op = "PageBreak"
    THEN SubSeq(commands,
                1 + CHOOSE k \in 1..Len(commands) :
                        /\ commands[k].op = "PageBreak"
                        /\ \A j \in (k + 1)..Len(commands) : commands[j].op # "PageBreak",
                Len(commands))
    ELSE commands

\* display::page run to its return
RECURSIVE Replay(_)
Replay(d) == IF d.returned # "no" THEN d ELSE Replay(PageTurn(d, "saturating", TRUE))

\* the cursor of display::page after the commands of the page, from the origin
ReplayedCursor(origin) ==
    IF CurrentPage = <<>> THEN origin
    ELSE Replay(DisplayStart(origin, FALSE, DefaultStyle, styles, CurrentPage)).cursor

\* C37: the builder and the replay agree on the vertical position: when
\* finish() emits the first line of a paragraph, on the first page or a later
\* one, the cursor.y of the builder is the distance from the origin of the page
\* to the cursor of display::page, started at the first command of the page,
\* when it comes to the commands of that line.
C37_VerticalAgreement ==
    [][FinishOfItems => ReplayedCursor([x |-> 0, y |-> 0]).y = cursor_y]_vars

(***************************************************************************)
(* display/page.rs: the error diffusion of the Show arm in f32.  An f32 of *)
(* the loop is kept as a whole number of 2^-25 pixels: below 2^-1 pixel    *)
(* every such number is an f32, from there on the f32 are 2, 4 and 8 of    *)
(* these units apart, and a sum is rounded to the nearest of them, to the  *)
(* even one of two that are equally near.                                  *)
(***************************************************************************)
\* 1.0 in 2^-25 pixels
OnePixel == Pow2(25)

\* the distance between the f32 around x >= 0, for x below 4 pixels
Ulp(x) ==
    IF x < Pow2(24) THEN 1 ELSE IF x < Pow2(25) THEN 2 ELSE IF x < Pow2(26) THEN 4 ELSE 8

\* the f32 nearest to x >= 0, ties to the even significand
RoundF32(x) ==
    Bind(Ulp(x), LAMBDA u :
        Bind(x \div u, LAMBDA q :
            IF 2 * (x - q * u) < u THEN q * u
            ELSE IF 2 * (x - q * u) > u THEN (q + 1) * u
            ELSE IF q % 2 = 0 THEN q * u ELSE (q + 1) * u))

\* f32::to_int_unchecked of a value in the range of i32
TruncF32(x) == x \div OnePixel

\* a charge that waits for the error to exceed one pixel
ChargesAbove(can_charge, error) == can_charge /\ error > OnePixel

\* can_charge && error >= 1.0
Charges(can_charge, error) == can_charge /\ error >= OnePixel

\* one turn of the loop over the characters of a Show: the character moves
\* the text cursor by width pixels where expected_width was expected
ShowStep(d, width, expected_width, can_charge) ==
    Bind(RoundF32(d.error + RoundF32(expected_width - width * OnePixel)), LAMBDA e :
        IF Charges(can_charge, e)
        THEN [error |-> RoundF32(e - TruncF32(e) * OnePixel),
              advance |-> width + TruncF32(e)]
        ELSE [error |-> e, advance |-> width])

MaxSpaces == 9
MaxLetters == 2

\* the whitespace widths SetAdjustmentRatio leaves for a style of em_px e and
\* a ratio r: f32(1/3) (e = 1, r = 0), 0x1.c71c72p-2 (e = 1, r = 0x1.555554p-1),
\* 1/2 (e = 1, r = 1), 1 (e = 3, r = 0), f32(4/3) (e = 4, r = 0) and
\* 9/4 (e = 6, r = 1/4)
WhitespaceWidths == {11184811, 14913081, 16777216, 33554432, 44739244, 75497472}

\* after SetAdjustmentRatio, at the start of a line
InitDiffusion ==
    /\ CodecIdle /\ LayoutIdle /\ DisplayIdle /\ CacheIdle /\ LebIdle /\ MarkdownIdle
    /\ \E w \in WhitespaceWidths :
          diffusion = [whitespace_width |-> w,
                       whitespace_width_quantized |-> TruncF32(w),
                       error |-> 0, spaces |-> 0, letters |-> 0,
                       space_advance |-> 0, letter_advance |-> 0]

\* a whitespace character of a Show
show_whitespace ==
    /\ diffusion # <<>> /\ diffusion.spaces < MaxSpaces
    /\ \E t \in {ShowStep(diffusion, diffusion.whitespace_width_quantized,
                           diffusion.whitespace_width, TRUE)} :
          diffusion' = [diffusion EXCEPT !.error = t.error,
                                         !.spaces = @ + 1,
                                         !.space_advance = @ + t.advance]
    /\ UNCHANGED <<codecVars, layoutVars, displayVars, cacheVars, lebVars, markdownVars>>

\* another character of a Show, drawn advance pixels wide
show_character ==
    /\ diffusion # <<>> /\ diffusion.letters < MaxLetters
    /\ \E t \in {ShowStep(diffusion, DefaultStyle.advance,
                           DefaultStyle.advance * OnePixel, FALSE)} :
          diffusion' = [diffusion EXCEPT !.error = t.error,
                                         !.letters = @ + 1,
                                         !.letter_advance = @ + t.advance]
    /\ UNCHANGED <<codecVars, layoutVars, displayVars, cacheVars, lebVars, markdownVars>>

\* Command::LineBreak: the error is dropped, the cursor is back at origin.x
line_break ==
    /\ diffusion # <<>>
    /\ diffusion' = [diffusion EXCEPT !.error = 0, !.spaces = 0, !.letters = 0,
                                      !.space_advance = 0, !.letter_advance = 0]
    /\ UNCHANGED <<codecVars, layoutVars, displayVars, cacheVars, lebVars, markdownVars>>

NextDiffusion == show_whitespace \/ show_character \/ line_break

SpecDiffusion == InitDiffusion /\ [][NextDiffusion]_vars

\* floor(k * ws) for the k whitespace characters since the last LineBreak
FloorOfSpaces == (diffusion.spaces * diffusion.whitespace_width) \div OnePixel

\* no correction pixel went to a character that is no whitespace
LettersUncorrected ==
    diffusion.letter_advance = diffusion.letters * DefaultStyle.advance

SumsExactly ==
    (diffusion.whitespace_width - diffusion.whitespace_width_quantized * OnePixel) % 4 = 0

====
